---- MODULE Spec2Model ----
(***************************************************************************)
(* Model of the timesheet utilization tooling:                             *)
(*   - utilization_tool.py : find_col and main (the command-line report)   *)
(*   - utilization_app/app.py : tidy_timesheet_pipeline, the wide-sheet    *)
(*     parser parse_risk_projects_sheet and parse_week_label_to_period     *)
(*   - bulk_import.py, timesheet_app.py : the Excel importers              *)
(*   - project_list_automation.py : the portal submission loop             *)
(* Text is a sequence of one-character strings, a calendar date is its day *)
(* number (days since 1970-01-01, the value pandas keeps in a Timestamp),  *)
(* hours are whole numbers and a percentage is kept in hundredths.         *)
(***************************************************************************)
EXTENDS Integers, Sequences, FiniteSets, TLC

VARIABLES
    prog,        \* which program runs on the input: "tool" | "app" | "find_col" | ...
    pc,          \* position inside the running program
    columns,     \* df.columns: the sheet's header, in sheet order
    table,       \* the sheet's rows, in sheet order
    args,        \* parsed command-line arguments / sidebar settings
    cols,        \* person_col, date_col, hours_col, cap_col, project_col
    stderr,      \* what the missing-column exit printed
    df,          \* the working frame after coercion and filtering
    grouped,     \* BookedHours per (person, period)
    cap,         \* CapacityHours per (person, period)
    out,         \* the merged Utilization frame
    by_project,  \* the ByProject frame (or None)
    written,     \* the sheets written to the output workbook
    agg,         \* the frame tidy_timesheet_pipeline returns
    query,       \* find_col's arguments when it is exercised on its own
    found,       \* find_col's result when it is exercised on its own
    dates,       \* the period key exercised on its own: arguments and results
    week_label,  \* parse_week_label_to_period: argument and result
    wide,        \* parse_risk_projects_sheet: the sheet, the loop and its frames
    db,          \* the importers: the sheet, the entries table, the transaction
    portal       \* the portal automation: rows, attempts, what the portal saved

toolVars == <<columns, table, args, cols, stderr, df, grouped, cap, out,
              by_project, written, agg, query, found>>

\* the state of the programs other than the report tool and find_col
others == <<dates, week_label, wide, db, portal>>

vars == <<prog, pc, toolVars, others>>

-----------------------------------------------------------------------------
(* Text: Python str as a sequence of characters.                           *)

UpperToLower ==
    ("A" :> "a") @@ ("B" :> "b") @@ ("C" :> "c") @@ ("D" :> "d") @@ ("E" :> "e") @@
    ("F" :> "f") @@ ("G" :> "g") @@ ("H" :> "h") @@ ("I" :> "i") @@ ("J" :> "j") @@
    ("K" :> "k") @@ ("L" :> "l") @@ ("M" :> "m") @@ ("N" :> "n") @@ ("O" :> "o") @@
    ("P" :> "p") @@ ("Q" :> "q") @@ ("R" :> "r") @@ ("S" :> "s") @@ ("T" :> "t") @@
    ("U" :> "u") @@ ("V" :> "v") @@ ("W" :> "w") @@ ("X" :> "x") @@ ("Y" :> "y") @@
    ("Z" :> "z")

\* str.lower()
Lower(s) ==
    [i \in 1..Len(s) |-> IF s[i] \in DOMAIN UpperToLower THEN UpperToLower[s[i]] ELSE s[i]]

RECURSIVE LStrip(_)
LStrip(s) == IF s # <<>> /\ Head(s) = " " THEN LStrip(Tail(s)) ELSE s

RECURSIVE RStrip(_)
RStrip(s) ==
    IF s # <<>> /\ s[Len(s)] = " " THEN RStrip(SubSeq(s, 1, Len(s) - 1)) ELSE s

\* str.strip()
Strip(s) == RStrip(LStrip(s))

\* Python's `needle in hay` on two strings
Contains(hay, needle) ==
    \E i \in 0..(Len(hay) - Len(needle)) : SubSeq(hay, i + 1, i + Len(needle)) = needle

\* the order Python gives two strings (by code point, shorter prefix first)
CodePoints ==
    <<" ", "%", ",", "-", ".", "/", "0", "1", "2", "3", "4", "5", "6", "7", "8", "9",
      "A", "B", "C", "D", "E", "F", "G", "H", "I", "J", "K", "L", "M", "N", "O",
      "P", "Q", "R", "S", "T", "U", "V", "W", "X", "Y", "Z", "_",
      "a", "b", "c", "d", "e", "f", "g", "h", "i", "j", "k", "l", "m", "n", "o",
      "p", "q", "r", "s", "t", "u", "v", "w", "x", "y", "z">>

Ord(ch) == CHOOSE i \in 1..Len(CodePoints) : CodePoints[i] = ch

RECURSIVE StrLess(_, _)
StrLess(a, b) ==
    IF b = <<>> THEN FALSE
    ELSE IF a = <<>> THEN TRUE
    ELSE IF Head(a) = Head(b) THEN StrLess(Tail(a), Tail(b))
    ELSE Ord(Head(a)) < Ord(Head(b))

Digits == {"0", "1", "2", "3", "4", "5", "6", "7", "8", "9"}

DigitVal(ch) == Ord(ch) - Ord("0")

RECURSIVE DigitsToNat(_)
DigitsToNat(s) ==
    IF s = <<>> THEN 0
    ELSE 10 * DigitsToNat(SubSeq(s, 1, Len(s) - 1)) + DigitVal(s[Len(s)])

AllDigits(s) == s # <<>> /\ \A i \in 1..Len(s) : s[i] \in Digits

-----------------------------------------------------------------------------
(* Calendar: pandas Timestamp arithmetic on day numbers.                   *)

IsLeap(y) == (y % 4 = 0 /\ y % 100 # 0) \/ y % 400 = 0

DaysInMonth(y, m) ==
    IF m = 2 THEN (IF IsLeap(y) THEN 29 ELSE 28)
    ELSE IF m \in {4, 6, 9, 11} THEN 30 ELSE 31

\* day number of the civil date y-m-d
DaysFromCivil(y, m, d) ==
    LET yy  == IF m <= 2 THEN y - 1 ELSE y
        era == yy \div 400
        yoe == yy - era * 400
        mp  == IF m > 2 THEN m - 3 ELSE m + 9
        doy == (153 * mp + 2) \div 5 + d - 1
        doe == yoe * 365 + yoe \div 4 - yoe \div 100 + doy
    IN  era * 146097 + doe - 719468

\* civil date of a day number
CivilFromDays(z) ==
    LET zz  == z + 719468
        era == zz \div 146097
        doe == zz - era * 146097
        yoe == (doe - doe \div 1460 + doe \div 36524 - doe \div 146096) \div 365
        doy == doe - (365 * yoe + yoe \div 4 - yoe \div 100)
        mp  == (5 * doy + 2) \div 153
        d   == doy - (153 * mp + 2) \div 5 + 1
        m   == IF mp < 10 THEN mp + 3 ELSE mp - 9
        y   == yoe + era * 400 + (IF m <= 2 THEN 1 ELSE 0)
    IN  [y |-> y, m |-> m, d |-> d]

\* Timestamp.weekday(): Monday = 0 .. Sunday = 6
Weekday(z) == (z + 3) % 7

-----------------------------------------------------------------------------
(* Cells of a sheet as pandas reads them, and the two coercions.           *)

None == <<>>                       \* Python None (and the empty string, equally falsy)

Blank     == [k |-> "blank", n |-> 0, s |-> <<>>]      \* an empty cell (NaN)
Text(s)   == [k |-> "text",  n |-> 0, s |-> s]
Num(n)    == [k |-> "num",   n |-> n, s |-> <<>>]
DateOf(d) == [k |-> "date",  n |-> d, s |-> <<>>]      \* a native date cell

NaN == [ok |-> FALSE, v |-> 0]     \* NaN / NaT
Val(n) == [ok |-> TRUE, v |-> n]

\* a "YYYY-MM-DD" string as a date, NaT for any other text
ParseISODate(s) ==
    IF /\ Len(s) = 10
       /\ s[5] = "-" /\ s[8] = "-"
       /\ AllDigits(SubSeq(s, 1, 4)) /\ AllDigits(SubSeq(s, 6, 7)) /\ AllDigits(SubSeq(s, 9, 10))
    THEN LET y == DigitsToNat(SubSeq(s, 1, 4))
             m == DigitsToNat(SubSeq(s, 6, 7))
             d == DigitsToNat(SubSeq(s, 9, 10))
         IN  IF m \in 1..12 /\ d >= 1 /\ d <= DaysInMonth(y, m)
             THEN Val(DaysFromCivil(y, m, d)) ELSE NaN
    ELSE NaN

\* pd.to_datetime(cell, errors="coerce"), to the day
to_datetime(c) ==
    CASE c.k = "date" -> Val(c.n)
      [] c.k = "text" -> ParseISODate(Strip(c.s))
      [] c.k = "num"  -> Val(IF c.n >= 0 THEN 0 ELSE -1)   \* nanoseconds since the epoch
      [] OTHER        -> NaN

\* pd.to_numeric(cell, errors="coerce") on whole numbers
to_numeric(c) ==
    CASE c.k = "num"  -> Val(c.n)
      [] c.k = "text" ->
            LET t == Strip(c.s) IN
            IF AllDigits(t) THEN Val(DigitsToNat(t))
            ELSE IF t # <<>> /\ Head(t) = "-" /\ AllDigits(Tail(t)) THEN Val(0 - DigitsToNat(Tail(t)))
            ELSE NaN
      [] OTHER        -> NaN

\* Series.isna() of one cell
IsNA(c) == c.k = "blank"

-----------------------------------------------------------------------------
(* find_col and its synonym lists.                                         *)

FALLBACK_PERSON_COLS == <<<<"p", "e", "r", "s", "o", "n">>, <<"n", "a", "m", "e">>, <<"e", "m", "p", "l", "o", "y", "e", "e">>, <<"r", "e", "s", "o", "u", "r", "c", "e">>, <<"a", "s", "s", "i", "g", "n", "e", "e">>>>
FALLBACK_DATE_COLS == <<<<"d", "a", "t", "e">>, <<"w", "o", "r", "k", " ", "d", "a", "t", "e">>, <<"e", "n", "t", "r", "y", "d", "a", "t", "e">>, <<"e", "n", "t", "r", "y", " ", "d", "a", "t", "e">>, <<"d", "a", "y">>>>
FALLBACK_HOURS_COLS == <<<<"h", "o", "u", "r", "s">>, <<"h", "r", "s">>, <<"t", "i", "m", "e", " ", "s", "p", "e", "n", "t">>, <<"t", "i", "m", "e", "_", "s", "p", "e", "n", "t">>>>
FALLBACK_CAP_COLS == <<<<"c", "a", "p", "a", "c", "i", "t", "y", "h", "o", "u", "r", "s">>, <<"c", "a", "p", "a", "c", "i", "t", "y">>, <<"d", "a", "i", "l", "y", "c", "a", "p", "a", "c", "i", "t", "y">>, <<"c", "a", "p", "a", "c", "i", "t", "y", "_", "h", "o", "u", "r", "s">>>>
POSSIBLE_PROJECT_COLS == <<<<"p", "r", "o", "j", "e", "c", "t">>, <<"p", "r", "o", "j", "e", "c", "t", " ", "n", "a", "m", "e">>, <<"c", "l", "i", "e", "n", "t">>, <<"t", "a", "s", "k">>, <<"a", "s", "s", "i", "g", "n", "m", "e", "n", "t">>>>

\* stage 1: the first column equal to the override, trimmed and case-folded
ExactOverride(columnSeq, preferred) ==
    LET hits == {i \in 1..Len(columnSeq) :
                    Lower(Strip(columnSeq[i])) = Lower(Strip(preferred))}
    IN  IF preferred # None /\ hits # {}
        THEN columnSeq[CHOOSE i \in hits : \A j \in hits : i <= j]
        ELSE None

\* stage 2: lowmap = {c.lower(): c}; the first synonym that is a key of it.
\* A later column overwrites an earlier one with the same lower-case name.
SoftMatch(columnSeq, fallbacks) ==
    LET keyed(cand) == {i \in 1..Len(columnSeq) : Lower(columnSeq[i]) = cand}
        cands == {k \in 1..Len(fallbacks) : keyed(fallbacks[k]) # {}}
    IN  IF cands # {}
        THEN LET k == CHOOSE k \in cands : \A j \in cands : k <= j
                 hits == keyed(fallbacks[k])
             IN  columnSeq[CHOOSE i \in hits : \A j \in hits : i >= j]
        ELSE None

\* stage 3: the first column whose lower-case name contains any synonym
ContainsMatch(columnSeq, fallbacks) ==
    LET hits == {i \in 1..Len(columnSeq) :
                    \E k \in 1..Len(fallbacks) : Contains(Lower(columnSeq[i]), fallbacks[k])}
    IN  IF hits # {}
        THEN columnSeq[CHOOSE i \in hits : \A j \in hits : i <= j]
        ELSE None

\* find_col without its exact-synonym stage: the substring stage answers first
find_col_substring_first(columnSeq, preferred, fallbacks) ==
    IF ExactOverride(columnSeq, preferred) # None THEN ExactOverride(columnSeq, preferred)
    ELSE ContainsMatch(columnSeq, fallbacks)

find_col(columnSeq, preferred, fallbacks) ==
    IF ExactOverride(columnSeq, preferred) # None THEN ExactOverride(columnSeq, preferred)
    ELSE IF SoftMatch(columnSeq, fallbacks) # None THEN SoftMatch(columnSeq, fallbacks)
    ELSE ContainsMatch(columnSeq, fallbacks)

-----------------------------------------------------------------------------
(* Period keys and pandas date offsets.                                    *)

Periods == {"daily", "weekly", "monthly", "quarterly", "yearly"}

\* the weekday a pandas "W-XXX" period ENDS on (Timestamp.weekday numbering)
AnchorWeekday(anchor) == IF anchor = "W-MON" THEN 0 ELSE 6

\* week_anchor = "W-MON" if args.week_start == "MON" else "W-SUN"
WeekAnchor(week_start) == IF week_start = "MON" THEN "W-MON" ELSE "W-SUN"

\* a weekly start taken one week early: the anchor day before the week of d
PeriodStartWeekEarly(d, freq) ==
    LET c == CivilFromDays(d) IN
    CASE freq = "D" -> d
      [] freq \in {"W-MON", "W-SUN"} ->
            d + ((AnchorWeekday(freq) - Weekday(d) + 7) % 7) - 13
      [] freq = "M" -> DaysFromCivil(c.y, c.m, 1)
      [] freq = "Q" -> DaysFromCivil(c.y, 3 * ((c.m - 1) \div 3) + 1, 1)
      [] freq = "Y" -> DaysFromCivil(c.y, 1, 1)

\* Series.dt.to_period(freq).dt.start_time for one date
PeriodStartTime(d, freq) ==
    LET c == CivilFromDays(d) IN
    CASE freq = "D" -> d
      [] freq \in {"W-MON", "W-SUN"} ->
            \* the week that ends on the anchor weekday and contains d
            d + ((AnchorWeekday(freq) - Weekday(d) + 7) % 7) - 6
      [] freq = "M" -> DaysFromCivil(c.y, c.m, 1)
      [] freq = "Q" -> DaysFromCivil(c.y, 3 * ((c.m - 1) \div 3) + 1, 1)
      [] freq = "Y" -> DaysFromCivil(c.y, 1, 1)

\* the "__period" column of one row
PeriodKey(d, period, week_start) ==
    CASE period = "daily"     -> PeriodStartTime(d, "D")
      [] period = "weekly"    -> PeriodStartTime(d, WeekAnchor(week_start))
      [] period = "monthly"   -> PeriodStartTime(d, "M")
      [] period = "quarterly" -> PeriodStartTime(d, "Q")
      [] period = "yearly"    -> PeriodStartTime(d, "Y")

\* ts + pd.offsets.Day(n)
OffsetDay(ts, n) == ts + n

\* ts + pd.offsets.Week(weekday=w): forward to the next day with that weekday,
\* a whole week when ts already falls on it
OffsetWeek(ts, w) ==
    IF Weekday(ts) # w THEN ts + ((w - Weekday(ts) + 7) % 7) ELSE ts + 7

\* ts + pd.offsets.MonthBegin(1): the first day of a month strictly after ts
OffsetMonthBegin(ts) ==
    LET c == CivilFromDays(ts) IN
    IF c.m = 12 THEN DaysFromCivil(c.y + 1, 1, 1) ELSE DaysFromCivil(c.y, c.m + 1, 1)

\* ts + pd.offsets.MonthEnd(0): ts when it is a month's last day, else the
\* last day of ts's month
OffsetMonthEnd0(ts) ==
    LET c == CivilFromDays(ts) IN DaysFromCivil(c.y, c.m, DaysInMonth(c.y, c.m))

\* ts + pd.offsets.QuarterBegin(startingMonth=1, n=1): the first of
\* Jan/Apr/Jul/Oct 1 strictly after ts
OffsetQuarterBegin(ts) ==
    LET c == CivilFromDays(ts)
        q == (c.m - 1) \div 3
    IN  IF q = 3 THEN DaysFromCivil(c.y + 1, 1, 1) ELSE DaysFromCivil(c.y, 3 * (q + 1) + 1, 1)

\* ts + pd.offsets.YearBegin(1): the first January 1 strictly after ts
OffsetYearBegin(ts) == DaysFromCivil(CivilFromDays(ts).y + 1, 1, 1)

\* pend of the derived-capacity loop
PeriodEnd(pstart, period) ==
    CASE period = "daily"     -> OffsetDay(OffsetDay(pstart, 1), 0)
      [] period = "weekly"    -> OffsetDay(OffsetWeek(pstart, 6), 1)
      [] period = "monthly"   -> OffsetMonthEnd0(OffsetMonthBegin(pstart))
      [] period = "quarterly" -> OffsetDay(OffsetQuarterBegin(pstart), -1)
      [] period = "yearly"    -> OffsetDay(OffsetYearBegin(pstart), -1)
      [] OTHER                -> pstart

\* workdays = [d for d in rng if d.weekday() < 5 and d.normalize() not in holidays]
Workdays(pstart, pend, holidays) ==
    {d \in pstart..pend : Weekday(d) < 5 /\ d \notin holidays}

\* capacity_hours = len(workdays) * float(args.work_hours_per_day)
DerivedCapacity(pstart, period, holidays, work_hours_per_day) ==
    Cardinality(Workdays(pstart, PeriodEnd(pstart, period), holidays)) * work_hours_per_day

-----------------------------------------------------------------------------
(* The sheets the programs are run on: headers and rows drawn from pools.  *)

MaxRows == 3                       \* rows of a sheet

DefaultWorkHours == 8              \* --work-hours-per-day default

Employee == <<"E", "m", "p", "l", "o", "y", "e", "e">>
WorkDate == <<"W", "o", "r", "k", " ", "D", "a", "t", "e">>
Hrs      == <<"H", "r", "s">>
Capacity == <<"C", "a", "p", "a", "c", "i", "t", "y">>
Project  == <<"P", "r", "o", "j", "e", "c", "t">>
Notes    == <<"N", "o", "t", "e", "s">>

\* what each column of the pool holds, by its trimmed name
ColumnField ==
    (Employee :> "person") @@ (WorkDate :> "date") @@ (Hrs :> "hours") @@
    (Capacity :> "capacity") @@ (Project :> "project") @@ (Notes :> "notes")

HeaderPool ==
    { <<Employee, WorkDate, Hrs>>,
      <<Employee, WorkDate, Hrs, Project>>,
      <<Employee, WorkDate, Hrs, <<" ">> \o Capacity \o <<" ">> >>,
      <<Employee, Hrs, Notes>>,
      <<Notes, Capacity>>,
      <<WorkDate, Project>> }

Alice == <<"A", "l", "i", "c", "e">>
Bob   == <<"B", "o", "b">>

Row(person, date, hours, capacity, project, notes) ==
    [person |-> person, date |-> date, hours |-> hours,
     capacity |-> capacity, project |-> project, notes |-> notes]

\* the three entries of the spec's Scenario A
RowA1 == Row(Text(Alice), DateOf(DaysFromCivil(2025, 1, 6)), Num(8), Num(8), Text(<<"X">>), Blank)
RowA2 == Row(Text(Alice), Text(<<"2", "0", "2", "5", "-", "0", "1", "-", "0", "7">>), Num(8), Blank, Blank, Text(<<"o", "k">>))
RowA3 == Row(Text(Bob), DateOf(DaysFromCivil(2025, 1, 8)), Num(4), Num(-8), Text(<<"Y">>), Blank)

RowPool ==
    { RowA1, RowA2, RowA3,
      Row(Text(<<" ", " ">>), DateOf(DaysFromCivil(2025, 1, 12)), Text(<<"2">>), Num(0), Text(<<"X">>), Blank),
      Row(Text(Bob), DateOf(DaysFromCivil(2025, 1, 8)), Num(-5), Num(8), Blank, Blank),
      Row(Text(<<" ">> \o Bob), Text(<<"t", "b", "d">>), Text(<<"a", "b", "c">>), Text(<<"n", "o">>), Text(<<"Y">>), Blank) }

Tables == UNION {[1..n -> RowPool] : n \in 0..MaxRows}

HolidayPool == { {}, {DaysFromCivil(2025, 1, 7)} }

\* the cell of a raw row under a column
Cell(row, c) == row[ColumnField[Strip(c)]]

-----------------------------------------------------------------------------
(* Frame helpers: groupby keys, sums and sorts.                            *)

RECURSIVE SumOver(_, _)
SumOver(S, f) ==
    IF S = {} THEN 0
    ELSE LET x == CHOOSE x \in S : TRUE IN f[x] + SumOver(S \ {x}, f)

\* (person, period) keys in the order groupby / sort_values give them
KeyLess(a, b) == StrLess(a[1], b[1]) \/ (a[1] = b[1] /\ a[2] < b[2])

\* (person, period, project) keys in groupby order
Key3Less(a, b) ==
    \/ KeyLess(a, b)
    \/ (a[1] = b[1] /\ a[2] = b[2] /\ StrLess(a[3], b[3]))

\* a set of distinct keys as the sequence sorted by Less
SortKeys(S, Less(_, _)) ==
    [i \in 1..Cardinality(S) |->
        CHOOSE x \in S : Cardinality({y \in S : Less(y, x)}) = i - 1]

\* Series.unique(): first occurrences, in order
RECURSIVE Unique(_)
Unique(seq) ==
    IF seq = <<>> THEN <<>>
    ELSE LET init == Unique(SubSeq(seq, 1, Len(seq) - 1))
             last == seq[Len(seq)]
         IN  IF \E i \in 1..Len(init) : init[i] = last THEN init ELSE Append(init, last)

\* numerator / denominator rounded to the nearest whole number, ties to even
RoundDiv(n, d) ==
    LET nn == IF d < 0 THEN 0 - n ELSE n
        dd == IF d < 0 THEN 0 - d ELSE d
        q  == nn \div dd
        r  == nn - q * dd
    IN  IF 2 * r < dd THEN q
        ELSE IF 2 * r > dd THEN q + 1
        ELSE IF q % 2 = 0 THEN q ELSE q + 1

-----------------------------------------------------------------------------
(* utilization_tool.main, block by block.                                  *)

RECURSIVE NatToDigits(_)
NatToDigits(n) ==
    IF n < 10 THEN <<CodePoints[Ord("0") + n]>>
    ELSE NatToDigits(n \div 10) \o <<CodePoints[Ord("0") + (n % 10)]>>

\* Series.astype(str) of one text or whole-number cell
AsStr(c) ==
    CASE c.k = "text" -> c.s
      [] c.k = "num"  -> IF c.n < 0 THEN <<"-">> \o NatToDigits(0 - c.n) ELSE NatToDigits(c.n)

\* a report that stops at the first missing field
MissingFirstOnly(c) ==
    LET all == SelectSeq(<<"person", "date", "hours">>, LAMBDA k : c[k] = None)
    IN  IF all = <<>> THEN <<>> ELSE <<all[1]>>

\* required = {"person": ..., "date": ..., "hours": ...}; the keys left unresolved
MissingRequired(c) ==
    SelectSeq(<<"person", "date", "hours">>, LAMBDA k : c[k] = None)

\* the five find_col calls of main
IdentifiedColumns(columnSeq, a) ==
    [person  |-> find_col(columnSeq, a.person_col,   FALLBACK_PERSON_COLS),
     date    |-> find_col(columnSeq, a.date_col,     FALLBACK_DATE_COLS),
     hours   |-> find_col(columnSeq, a.hours_col,    FALLBACK_HOURS_COLS),
     cap     |-> find_col(columnSeq, a.capacity_col, FALLBACK_CAP_COLS),
     project |-> find_col(columnSeq, a.project_col,  POSSIBLE_PROJECT_COLS)]

\* df[date_col] = pd.to_datetime(...); df[hours_col] = pd.to_numeric(...)
\* (idx is the row's index label, which survives the later filters)
Coerced(tbl, person_col, date_col, hours_col) ==
    [i \in 1..Len(tbl) |->
        [idx   |-> i - 1,
         pcell |-> Cell(tbl[i], person_col),
         date  |-> to_datetime(Cell(tbl[i], date_col)),
         hours |-> to_numeric(Cell(tbl[i], hours_col)),
         raw   |-> tbl[i]]]

\* df.dropna(subset=[date_col, hours_col, person_col])
DropNA(frame) ==
    SelectSeq(frame, LAMBDA r : r.date.ok /\ r.hours.ok /\ ~IsNA(r.pcell))

\* df[df[hours_col] >= 0]
NonNegativeHours(frame) == SelectSeq(frame, LAMBDA r : r.hours.v >= 0)

\* df[person_col] = df[person_col].astype(str).str.strip()
NormalizedPerson(frame) ==
    [i \in 1..Len(frame) |->
        [idx    |-> frame[i].idx,
         person |-> Strip(AsStr(frame[i].pcell)),
         date   |-> frame[i].date.v,
         hours  |-> frame[i].hours.v,
         raw    |-> frame[i].raw]]

\* df["__period"] = ...
WithPeriod(frame, period, week_start) ==
    [i \in 1..Len(frame) |->
        [idx    |-> frame[i].idx,
         person |-> frame[i].person,
         date   |-> frame[i].date,
         hours  |-> frame[i].hours,
         raw    |-> frame[i].raw,
         period |-> PeriodKey(frame[i].date, period, week_start)]]

\* a column of the working frame: the coerced columns as coerced, any other raw
ReadCol(r, c, cs) ==
    IF c = cs.person THEN Text(r.person)
    ELSE IF c = cs.hours THEN Num(r.hours)
    ELSE IF c = cs.date THEN DateOf(r.date)
    ELSE Cell(r.raw, c)

\* df.groupby([person_col, "__period"])[hours_col].sum().reset_index(name="BookedHours")
GroupBooked(frame) ==
    LET key(i) == <<frame[i].person, frame[i].period>>
        keys   == SortKeys({key(i) : i \in 1..Len(frame)}, KeyLess)
    IN  [k \in 1..Len(keys) |->
            [person      |-> keys[k][1],
             period      |-> keys[k][2],
             BookedHours |-> SumOver({i \in 1..Len(frame) : key(i) = keys[k]},
                                     [i \in 1..Len(frame) |-> frame[i].hours])]]

\* the explicit branch: to_numeric, dropna(subset=["__cap"]), groupby sum
ExplicitCapacity(frame, cs) ==
    LET capv(i) == to_numeric(ReadCol(frame[i], cs.cap, cs))
        rowsOk  == {i \in 1..Len(frame) : capv(i).ok}
        key(i)  == <<frame[i].person, frame[i].period>>
        keys    == SortKeys({key(i) : i \in rowsOk}, KeyLess)
    IN  [columns |-> {"person", "period", "CapacityHours"},
         rows |-> [k \in 1..Len(keys) |->
            [person        |-> keys[k][1],
             period        |-> keys[k][2],
             CapacityHours |-> SumOver({i \in rowsOk : key(i) = keys[k]},
                                       [i \in 1..Len(frame) |-> capv(i).v])]]]

\* the derived branch: one row per person and per period of grouped;
\* pd.DataFrame([]) has no columns at all
DerivedCapacityFrame(g, a) ==
    LET persons == Unique([i \in 1..Len(g) |-> g[i].person])
        periods == Unique([i \in 1..Len(g) |-> g[i].period])
        n       == Len(persons) * Len(periods)
    IN  [columns |-> IF n = 0 THEN {} ELSE {"person", "period", "CapacityHours"},
         rows |-> [k \in 1..n |->
            LET person == persons[((k - 1) \div Len(periods)) + 1]
                pstart == periods[((k - 1) % Len(periods)) + 1]
            IN  [person        |-> person,
                 period        |-> pstart,
                 CapacityHours |-> DerivedCapacity(pstart, a.period, a.holidays,
                                                   a.work_hours_per_day)]]]

\* the CapacityHours a left merge gives one row of grouped
MergedCapacity(g, c) ==
    LET hits == {j \in 1..Len(c.rows) :
                    c.rows[j].person = g.person /\ c.rows[j].period = g.period}
    IN  IF hits = {} THEN NaN ELSE Val(c.rows[CHOOSE j \in hits : TRUE].CapacityHours)

\* out["CapacityHours"].replace(0, np.nan)
ReplaceZero(x) == IF x.ok /\ x.v = 0 THEN NaN ELSE x

\* ((BookedHours / CapacityHours) * 100.0).round(2), in hundredths of a percent
UtilizationOf(booked, capacity) ==
    IF capacity.ok THEN Val(RoundDiv(booked * 10000, capacity.v)) ELSE NaN

\* the merge as an inner join: a bucket without a capacity entry is left out
MergedInner(g, c) ==
    LET kept == SelectSeq([i \in 1..Len(g) |-> i],
                          LAMBDA i : MergedCapacity(g[i], c).ok)
    IN  [n \in 1..Len(kept) |->
            LET capacity == ReplaceZero(MergedCapacity(g[kept[n]], c))
            IN  [person        |-> g[kept[n]].person,
                 period        |-> g[kept[n]].period,
                 BookedHours   |-> g[kept[n]].BookedHours,
                 CapacityHours |-> capacity,
                 Utilization   |-> UtilizationOf(g[kept[n]].BookedHours, capacity)]]

\* pd.merge(grouped, cap, how="left") and the two Utilization lines
Merged(g, c) ==
    [i \in 1..Len(g) |->
        LET capacity == ReplaceZero(MergedCapacity(g[i], c))
        IN  [person        |-> g[i].person,
             period        |-> g[i].period,
             BookedHours   |-> g[i].BookedHours,
             CapacityHours |-> capacity,
             Utilization   |-> UtilizationOf(g[i].BookedHours, capacity)]]

\* df.groupby([person_col, "__period", project_col])[hours_col].sum(): groupby
\* leaves out the rows whose key is missing (dropna=True)
GroupProject(frame, cs) ==
    LET pj(i)  == ReadCol(frame[i], cs.project, cs)
        rowsOk == {i \in 1..Len(frame) : ~IsNA(pj(i))}
        key(i) == <<frame[i].person, frame[i].period, AsStr(pj(i))>>
        keys   == SortKeys({key(i) : i \in rowsOk}, Key3Less)
    IN  [k \in 1..Len(keys) |->
            [person      |-> keys[k][1],
             period      |-> keys[k][2],
             project     |-> keys[k][3],
             BookedHours |-> SumOver({i \in rowsOk : key(i) = keys[k]},
                                     [i \in 1..Len(frame) |-> frame[i].hours])]]

\* gp.sort_values([person_col, "__period", "BookedHours"], ascending=[True, True, False]);
\* the sort is stable, so equal rows stay in groupby order
SortByProject(gp) ==
    LET before(i, j) ==
            \/ KeyLess(<<gp[i].person, gp[i].period>>, <<gp[j].person, gp[j].period>>)
            \/ /\ gp[i].person = gp[j].person /\ gp[i].period = gp[j].period
               /\ \/ gp[i].BookedHours > gp[j].BookedHours
                  \/ (gp[i].BookedHours = gp[j].BookedHours /\ i < j)
        order == SortKeys(1..Len(gp), before)
    IN  [k \in 1..Len(gp) |-> gp[order[k]]]

\* out.pivot_table(index="Person", aggfunc={sum, sum, mean}): sums and means skip NaN
SummaryOf(o) ==
    LET persons == SortKeys({o[i].person : i \in 1..Len(o)}, StrLess)
        mine(p) == {i \in 1..Len(o) : o[i].person = p}
        capd(p) == {i \in mine(p) : o[i].CapacityHours.ok}
        utld(p) == {i \in mine(p) : o[i].Utilization.ok}
    IN  [k \in 1..Len(persons) |->
            [person         |-> persons[k],
             BookedHours    |-> SumOver(mine(persons[k]), [i \in 1..Len(o) |-> o[i].BookedHours]),
             CapacityHours  |-> SumOver(capd(persons[k]), [i \in 1..Len(o) |-> o[i].CapacityHours.v]),
             AvgUtilization |->
                [ok    |-> utld(persons[k]) # {},
                 sum   |-> SumOver(utld(persons[k]), [i \in 1..Len(o) |-> o[i].Utilization.v]),
                 count |-> Cardinality(utld(persons[k]))]]]

\* out.sort_values(["Person", "PeriodStart"])
SortedOut(o) ==
    LET before(i, j) == KeyLess(<<o[i].person, o[i].period>>, <<o[j].person, o[j].period>>)
                            \/ (o[i].person = o[j].person /\ o[i].period = o[j].period /\ i < j)
        order == SortKeys(1..Len(o), before)
    IN  [k \in 1..Len(o) |-> o[order[k]]]

-----------------------------------------------------------------------------
(* utilization_app/app.py: tidy_timesheet_pipeline.                        *)

\* the frame the function returns; Utilization% is left unrounded, so it is
\* kept as the fraction num / den
tidy_timesheet_pipeline(tbl, person_col, date_col, hours_col, work_hours_per_day, week_start) ==
    LET kept  == NormalizedPerson(DropNA(Coerced(tbl, person_col, date_col, hours_col)))
        keyed == WithPeriod(kept, "weekly", week_start)
        g     == GroupBooked(keyed)
    IN  [i \in 1..Len(g) |->
            [Person            |-> g[i].person,
             PeriodStart       |-> g[i].period,
             ActualHours       |-> g[i].BookedHours,
             PlannedHours      |-> 5 * work_hours_per_day,
             AvailabilityHours |-> 5 * work_hours_per_day - g[i].BookedHours,
             Utilization       |-> [num |-> g[i].BookedHours * 100,
                                    den |-> 5 * work_hours_per_day]]]

-----------------------------------------------------------------------------
(* State machine.                                                          *)

NoColumns == [person |-> None, date |-> None, hours |-> None, cap |-> None, project |-> None]
NoCapacity == [columns |-> {}, rows |-> <<>>]
NoByProject == [present |-> FALSE, rows |-> <<>>]
NotWritten == [Utilization |-> <<>>, ByProject |-> NoByProject, Summary |-> <<>>]
NoQuery == [preferred |-> None, fallbacks |-> <<>>]
NoError == [missing |-> <<>>, columns |-> <<>>]

\* a program that is not the one running
Off == [off |-> TRUE]

OthersOff ==
    dates = Off /\ week_label = Off /\ wide = Off /\ db = Off /\ portal = Off

Idle ==
    /\ cols = NoColumns /\ stderr = NoError /\ df = <<>> /\ grouped = <<>>
    /\ cap = NoCapacity /\ out = <<>> /\ by_project = NoByProject
    /\ written = NotWritten /\ agg = <<>>

\* python utilization_tool.py --period .. --week-start .. --holidays ..
InitTool ==
    /\ prog = "tool" /\ pc = "start"
    /\ columns \in HeaderPool
    /\ table \in Tables
    /\ args \in [period : Periods, week_start : {"MON", "SUN"},
                 work_hours_per_day : {DefaultWorkHours}, holidays : HolidayPool,
                 person_col : {None}, date_col : {None}, hours_col : {None},
                 capacity_col : {None}, project_col : {None}]
    /\ args.period # "weekly" => args.week_start = "MON"   \* read by weekly only
    /\ Idle /\ OthersOff /\ query = NoQuery /\ found = None

\* the dashboard in "Tidy Timesheet" mode, on a sheet that has the three columns
InitApp ==
    /\ prog = "app" /\ pc = "start"
    /\ columns \in {h \in HeaderPool :
            \A f \in {"person", "date", "hours"} :
                \E i \in 1..Len(h) : ColumnField[Strip(h[i])] = f}
    /\ table \in Tables
    /\ args \in [period : {"weekly"}, week_start : {"MON", "SUN"},
                 work_hours_per_day : {DefaultWorkHours}, holidays : {{}},
                 person_col : {None}, date_col : {None}, hours_col : {None},
                 capacity_col : {None}, project_col : {None}]
    /\ Idle /\ OthersOff /\ query = NoQuery /\ found = None

Init == InitTool \/ InitApp

\* lines 105-120: trim the header, identify the columns, exit 2 on a missing one
IdentifyColumns ==
    /\ prog = "tool" /\ pc = "start"
    /\ LET trimmed == [i \in 1..Len(columns) |-> Strip(columns[i])]
           c       == IdentifiedColumns(trimmed, args)
           missing == MissingRequired(c)
       IN  /\ columns' = trimmed
           /\ cols' = c
           /\ IF missing # <<>>
              THEN /\ stderr' = [missing |-> missing, columns |-> trimmed]
                   /\ pc' = "exit2"
              ELSE /\ stderr' = stderr
                   /\ pc' = "identified"
    /\ UNCHANGED others
    /\ UNCHANGED <<prog, table, args, df, grouped, cap, out, by_project, written,
                   agg, query, found>>

\* lines 122-133: coerce, drop the missing, drop the negative, trim the person
CoerceTypes ==
    /\ prog = "tool" /\ pc = "identified"
    /\ df' = NormalizedPerson(NonNegativeHours(DropNA(
                Coerced(table, cols.person, cols.date, cols.hours))))
    /\ pc' = "coerced"
    /\ UNCHANGED others
    /\ UNCHANGED <<prog, columns, table, args, cols, stderr, grouped, cap, out,
                   by_project, written, agg, query, found>>

\* lines 135-153
BuildPeriodKey ==
    /\ prog = "tool" /\ pc = "coerced"
    /\ df' = WithPeriod(df, args.period, args.week_start)
    /\ pc' = "keyed"
    /\ UNCHANGED others
    /\ UNCHANGED <<prog, columns, table, args, cols, stderr, grouped, cap, out,
                   by_project, written, agg, query, found>>

\* lines 155-156
AggregateHours ==
    /\ prog = "tool" /\ pc = "keyed"
    /\ grouped' = GroupBooked(df)
    /\ pc' = "grouped"
    /\ UNCHANGED others
    /\ UNCHANGED <<prog, columns, table, args, cols, stderr, df, cap, out,
                   by_project, written, agg, query, found>>

\* lines 158-196
CapacityCalculation ==
    /\ prog = "tool" /\ pc = "grouped"
    /\ cap' = IF cols.cap # None THEN ExplicitCapacity(df, cols)
              ELSE DerivedCapacityFrame(grouped, args)
    /\ pc' = "capacity"
    /\ UNCHANGED others
    /\ UNCHANGED <<prog, columns, table, args, cols, stderr, df, grouped, out,
                   by_project, written, agg, query, found>>

\* lines 198-203; merging on columns the right frame lacks raises KeyError
MergeAndCompute ==
    /\ prog = "tool" /\ pc = "capacity"
    /\ IF cap.columns = {}
       THEN pc' = "KeyError" /\ out' = out
       ELSE pc' = "merged" /\ out' = Merged(grouped, cap)
    /\ UNCHANGED others
    /\ UNCHANGED <<prog, columns, table, args, cols, stderr, df, grouped, cap,
                   by_project, written, agg, query, found>>

\* lines 205-214
ProjectBreakdown ==
    /\ prog = "tool" /\ pc = "merged"
    /\ by_project' = IF cols.project # None
                     THEN [present |-> TRUE, rows |-> SortByProject(GroupProject(df, cols))]
                     ELSE NoByProject
    /\ pc' = "breakdown"
    /\ UNCHANGED others
    /\ UNCHANGED <<prog, columns, table, args, cols, stderr, df, grouped, cap, out,
                   written, agg, query, found>>

\* lines 216-228
WriteReport ==
    /\ prog = "tool" /\ pc = "breakdown"
    /\ written' = [Utilization |-> SortedOut(out), ByProject |-> by_project,
                   Summary |-> SummaryOf(out)]
    /\ pc' = "done"
    /\ UNCHANGED others
    /\ UNCHANGED <<prog, columns, table, args, cols, stderr, df, grouped, cap, out,
                   by_project, agg, query, found>>

\* app.py lines 222-231: the user maps the three columns, the pipeline runs
TidyTimesheetPipeline ==
    /\ prog = "app" /\ pc = "start"
    /\ \E person_col, date_col, hours_col \in {columns[i] : i \in 1..Len(columns)} :
          /\ ColumnField[Strip(person_col)] = "person"
          /\ ColumnField[Strip(date_col)] = "date"
          /\ ColumnField[Strip(hours_col)] = "hours"
          /\ cols' = [NoColumns EXCEPT !.person = person_col, !.date = date_col,
                                       !.hours = hours_col]
          /\ agg' = tidy_timesheet_pipeline(table, person_col, date_col, hours_col,
                                            args.work_hours_per_day, args.week_start)
    /\ pc' = "done"
    /\ UNCHANGED others
    /\ UNCHANGED <<prog, columns, table, args, stderr, df, grouped, cap, out,
                   by_project, written, query, found>>

\* find_col called on its own
FindCol ==
    /\ prog = "find_col" /\ pc = "start"
    /\ found' = find_col(columns, query.preferred, query.fallbacks)
    /\ pc' = "returned"
    /\ UNCHANGED others
    /\ UNCHANGED <<prog, columns, table, args, cols, stderr, df, grouped, cap, out,
                   by_project, written, agg, query>>

NextTool ==
    \/ IdentifyColumns
    \/ CoerceTypes
    \/ BuildPeriodKey
    \/ AggregateHours
    \/ CapacityCalculation
    \/ MergeAndCompute
    \/ ProjectBreakdown
    \/ WriteReport

Next ==
    \/ NextTool
    \/ TidyTimesheetPipeline

\* the report tool and the dashboard pipeline on sheets of up to MaxRows rows
Spec == Init /\ [][Next]_vars

-----------------------------------------------------------------------------
(* The report tool on every header of up to MaxCols columns, with column   *)
(* overrides, on short sheets.                                             *)

MaxCols == 3                       \* columns of a header
MaxRowsIdentify == 1               \* rows of a sheet under SpecIdentify

\* sequences of distinct names, up to n long
DistinctSeqs(names, n) ==
    {h \in UNION {[1..k -> names] : k \in 0..n} :
        \A i, j \in 1..Len(h) : i # j => h[i] # h[j]}

InitIdentify ==
    /\ prog = "tool" /\ pc = "start"
    /\ columns \in DistinctSeqs(DOMAIN ColumnField, MaxCols)
    /\ table \in UNION {[1..n -> {RowA1, RowA2, RowA3}] : n \in 0..MaxRowsIdentify}
    /\ args \in [period : {"monthly"}, week_start : {"MON"},
                 work_hours_per_day : {DefaultWorkHours}, holidays : {{}},
                 person_col : {None, <<"N", "O", "T", "E", "S">>},
                 date_col : {None},
                 hours_col : {None, <<" ", "h", "r", "s">>},
                 capacity_col : {None}, project_col : {None}]
    /\ Idle /\ OthersOff /\ query = NoQuery /\ found = None

SpecIdentify == InitIdentify /\ [][NextTool]_vars

-----------------------------------------------------------------------------
(* find_col on its own, over headers of up to MaxCols trimmed names.       *)

Name        == <<"N", "a", "m", "e">>
NAME        == <<"N", "A", "M", "E">>
ProjectName == <<"P", "r", "o", "j", "e", "c", "t", " ", "N", "a", "m", "e">>
WeekdayCol  == <<"W", "e", "e", "k", "d", "a", "y">>
TimeSpent   == <<"T", "i", "m", "e", " ", "S", "p", "e", "n", "t">>

NamePool == {Employee, WorkDate, Hrs, Name, NAME, ProjectName, WeekdayCol, TimeSpent}

PreferredPool == {None, <<"e", "m", "p", "l", "o", "y", "e", "e">>, <<" ", "N", "A", "M", "E", " ">>, <<"T", "o", "t", "a", "l">>}

SynonymLists ==
    {FALLBACK_PERSON_COLS, FALLBACK_DATE_COLS, FALLBACK_HOURS_COLS,
     FALLBACK_CAP_COLS, POSSIBLE_PROJECT_COLS}

InitResolver ==
    /\ prog = "find_col" /\ pc = "start"
    /\ columns \in DistinctSeqs(NamePool, MaxCols)
    /\ query \in [preferred : PreferredPool, fallbacks : SynonymLists]
    /\ table = <<>>
    /\ args = [period |-> "monthly", week_start |-> "MON",
               work_hours_per_day |-> DefaultWorkHours, holidays |-> {},
               person_col |-> None, date_col |-> None, hours_col |-> None,
               capacity_col |-> None, project_col |-> None]
    /\ Idle /\ OthersOff /\ found = None

SpecResolver == InitResolver /\ [][FindCol]_vars

-----------------------------------------------------------------------------
(* The report tool with and without a capacity column, on sheets of up to  *)
(* MaxRowsMerge rows, by day and by month.                                 *)

MaxRowsMerge == 3                  \* rows of a sheet under SpecMerge

InitMerge ==
    /\ prog = "tool" /\ pc = "start"
    /\ columns \in { <<Employee, WorkDate, Hrs>>,
                     <<Employee, WorkDate, Hrs, <<" ">> \o Capacity \o <<" ">> >> }
    /\ table \in UNION {[1..n -> RowPool] : n \in 0..MaxRowsMerge}
    /\ args \in [period : {"daily", "monthly"}, week_start : {"MON"},
                 work_hours_per_day : {DefaultWorkHours}, holidays : {{}},
                 person_col : {None}, date_col : {None}, hours_col : {None},
                 capacity_col : {None}, project_col : {None}]
    /\ Idle /\ OthersOff /\ query = NoQuery /\ found = None

SpecMerge == InitMerge /\ [][NextTool]_vars

-----------------------------------------------------------------------------
(* The period key on its own (lines 135-153 of utilization_tool.py), over  *)
(* MaxSpan consecutive dates around the turn of the year.                  *)

MaxSpan == 21                      \* dates drawn, from FirstDate on

FirstDate == DaysFromCivil(2024, 12, 23)

DatePool == FirstDate..(FirstDate + MaxSpan - 1)

ToolOff ==
    /\ columns = <<>> /\ table = <<>>
    /\ args = [period |-> "monthly", week_start |-> "MON",
               work_hours_per_day |-> DefaultWorkHours, holidays |-> {},
               person_col |-> None, date_col |-> None, hours_col |-> None,
               capacity_col |-> None, project_col |-> None]
    /\ Idle /\ query = NoQuery /\ found = None

InitPeriod ==
    /\ prog = "period" /\ pc = "start"
    /\ dates \in [d : DatePool, e : DatePool, period : Periods,
                  week_start : {"MON", "SUN"},
                  start : {NaN}, other : {NaN}, again : {NaN}]
    /\ ToolOff
    /\ week_label = Off /\ wide = Off /\ db = Off /\ portal = Off

\* df["__period"] for two dates of the sheet
PeriodOfDates ==
    /\ prog = "period" /\ pc = "start"
    /\ dates' = [dates EXCEPT
                    !.start = Val(PeriodKey(dates.d, dates.period, dates.week_start)),
                    !.other = Val(PeriodKey(dates.e, dates.period, dates.week_start))]
    /\ pc' = "keyed"
    /\ UNCHANGED <<prog, toolVars, week_label, wide, db, portal>>

\* the same key taken of a period start, as of a sheet that holds that date
PeriodOfStart ==
    /\ prog = "period" /\ pc = "keyed"
    /\ dates' = [dates EXCEPT
                    !.again = Val(PeriodKey(dates.start.v, dates.period, dates.week_start))]
    /\ pc' = "rekeyed"
    /\ UNCHANGED <<prog, toolVars, week_label, wide, db, portal>>

NextPeriod == PeriodOfDates \/ PeriodOfStart

SpecPeriod == InitPeriod /\ [][NextPeriod]_vars

-----------------------------------------------------------------------------
(* utilization_app/app.py: the wide-sheet parser. Row and column positions *)
(* are pandas positions: df.iloc[j] is the row at position j, from 0.      *)

\* df.iloc[j]
Iloc(frame, j) == frame[j + 1]

\* isinstance(val, str)
IsStr(c) == c.k = "text"

\* the columns whose top cell names a person, in column order, with the name
detect_person_columns(frame) ==
    LET top == Iloc(frame, 0)
        named(c) == /\ IsStr(top[c]) /\ Strip(top[c].s) # <<>>
                    /\ ~Contains(Lower(top[c].s), <<"w", "e", "e", "k">>)
                    /\ ~Contains(Lower(top[c].s), <<"u", "t", "i", "l", "i", "z", "a", "t", "i", "o", "n">>)
        hits == SelectSeq([c \in 1..Len(top) |-> c], LAMBDA c : named(c))
    IN  [k \in 1..Len(hits) |-> [col |-> hits[k], person |-> Strip(top[hits[k]].s)]]

\* week_hits: the string cells of a row that contain "week" in any case
WeekHits(row) == SelectSeq(row, LAMBDA v : IsStr(v) /\ Contains(Lower(v.s), <<"w", "e", "e", "k">>))

\* sorted(week_hits, key=len, reverse=True)[0]: the sort is stable, so the
\* first of the longest
LongestFirst(hits) ==
    LET k == CHOOSE k \in 1..Len(hits) :
                /\ \A j \in 1..Len(hits) : Len(hits[j].s) <= Len(hits[k].s)
                /\ \A j \in 1..(k - 1) : Len(hits[j].s) < Len(hits[k].s)
    IN  hits[k].s

\* the first week cell of the row, whatever its length
FirstHit(row, current) ==
    IF WeekHits(row) # <<>> THEN WeekHits(row)[1].s ELSE current

\* lines 82-86: current_week after the row's week cells are looked at
CurrentWeek(row, current) ==
    IF WeekHits(row) # <<>> THEN LongestFirst(WeekHits(row)) ELSE current

\* float(val): the number of a numeric cell or of text that spells one, nan
\* of an empty cell (pandas reads it as nan) and of the text "nan";
\* other text raises
Float(c) ==
    CASE c.k = "num"   -> [raises |-> FALSE, num |-> Val(c.n)]
      [] c.k = "blank" -> [raises |-> FALSE, num |-> NaN]
      [] c.k = "text"  ->
            LET t == Strip(c.s) IN
            IF AllDigits(t) THEN [raises |-> FALSE, num |-> Val(DigitsToNat(t))]
            ELSE IF Lower(t) = <<"n", "a", "n">> THEN [raises |-> FALSE, num |-> NaN]
            ELSE [raises |-> TRUE, num |-> NaN]
      [] OTHER         -> [raises |-> TRUE, num |-> NaN]

RECURSIVE ScanBelow(_, _, _, _)
ScanBelow(frame, col, j, stop) ==
    IF j >= stop THEN NaN          \* return None
    ELSE LET f == Float(Iloc(frame, j)[col]) IN
         IF ~f.raises THEN f.num ELSE ScanBelow(frame, col, j + 1, stop)

\* lines 94-102: for j in range(start_idx+1, min(start_idx+6, len(df)))
next_numeric(frame, col, start_idx) ==
    ScanBelow(frame, col, start_idx + 1,
              IF start_idx + 6 < Len(frame) THEN start_idx + 6 ELSE Len(frame))

\* lines 104-115: the metric a lower-cased cell names, "" for none
MetricOf(cl) ==
    IF Contains(cl, <<"p", "l", "a", "n", "n", "e", "d">>) /\ Contains(cl, <<"u", "t", "i", "l", "i", "z", "a", "t", "i", "o", "n">>) THEN "PlannedUtilization%"
    ELSE IF Contains(cl, <<"a", "c", "t", "u", "a", "l">>) /\ Contains(cl, <<"u", "t", "i", "l", "i", "z", "a", "t", "i", "o", "n">>) THEN "ActualUtilization%"
    ELSE IF Contains(cl, <<"p", "l", "a", "n", "n", "e", "d">>) /\ Contains(cl, <<"h", "o", "u", "r", "s">>) THEN "PlannedHours"
    ELSE IF Contains(cl, <<"a", "c", "t", "u", "a", "l">>) /\ Contains(cl, <<"h", "o", "u", "r", "s">>) THEN "ActualHours"
    ELSE ""

\* lines 88-115: the records one row appends, person column by person column
RowRecords(frame, person_cols, i, current) ==
    LET emits(k) == LET cell == Iloc(frame, i)[person_cols[k].col] IN
                    IsStr(cell) /\ MetricOf(Lower(cell.s)) # ""
        ks == SelectSeq([k \in 1..Len(person_cols) |-> k], LAMBDA k : emits(k))
    IN  [n \in 1..Len(ks) |->
            [Person    |-> person_cols[ks[n]].person,
             WeekLabel |-> current,
             Metric    |-> MetricOf(Lower(Iloc(frame, i)[person_cols[ks[n]].col].s)),
             Value     |-> next_numeric(frame, person_cols[ks[n]].col, i)]]

-----------------------------------------------------------------------------
(* utilization_app/app.py: parse_week_label_to_period.                     *)

Letters == DOMAIN UpperToLower \cup {UpperToLower[ch] : ch \in DOMAIN UpperToLower}

\* \s: the labels of the model hold no white space other than the blank
Spaces == {" "}

\* the position after the longest run of characters of S that starts at p
RECURSIVE SkipSet(_, _, _)
SkipSet(s, p, S) == IF p <= Len(s) /\ s[p] \in S THEN SkipSet(s, p + 1, S) ELSE p

NoMatch == [ok |-> FALSE, wnum |-> <<>>, month_str |-> <<>>, year |-> <<>>]

\* r"Week\s*(\d+)\s*,\s*([A-Za-z]+)\s*(\d{4})" tried at position p. Every
\* repetition is followed by a character outside its class, so the greedy
\* match is the only one.
MatchAt(s, p) ==
    LET a == SkipSet(s, p + 4, Spaces)
        b == SkipSet(s, a, Digits)
        c == SkipSet(s, b, Spaces)
        e == SkipSet(s, c + 1, Spaces)
        f == SkipSet(s, e, Letters)
        g == SkipSet(s, f, Spaces)
    IN  IF /\ p + 3 <= Len(s) /\ SubSeq(s, p, p + 3) = <<"W", "e", "e", "k">>
           /\ b > a
           /\ c <= Len(s) /\ s[c] = ","
           /\ f > e
           /\ g + 3 <= Len(s) /\ \A i \in g..(g + 3) : s[i] \in Digits
        THEN [ok |-> TRUE, wnum |-> SubSeq(s, a, b - 1),
              month_str |-> SubSeq(s, e, f - 1), year |-> SubSeq(s, g, g + 3)]
        ELSE NoMatch

\* re.search: the match at the leftmost position that has one
re_search(s) ==
    LET at == {p \in 1..Len(s) : MatchAt(s, p).ok} IN
    IF at = {} THEN NoMatch
    ELSE MatchAt(s, CHOOSE p \in at : \A q \in at : p <= q)

MonthNames ==
    << <<"j", "a", "n", "u", "a", "r", "y">>, <<"f", "e", "b", "r", "u", "a", "r", "y">>, <<"m", "a", "r", "c", "h">>, <<"a", "p", "r", "i", "l">>, <<"m", "a", "y">>, <<"j", "u", "n", "e">>, <<"j", "u", "l", "y">>,
       <<"a", "u", "g", "u", "s", "t">>, <<"s", "e", "p", "t", "e", "m", "b", "e", "r">>, <<"o", "c", "t", "o", "b", "e", "r">>, <<"n", "o", "v", "e", "m", "b", "e", "r">>, <<"d", "e", "c", "e", "m", "b", "e", "r">> >>

\* datetime.strptime(month_str, "%B").month, else "%b"; 0 when both raise.
\* strptime matches month names in any case.
strptime_month(month_str) ==
    LET l == Lower(month_str)
        hits == {m \in 1..12 : l = MonthNames[m] \/ l = SubSeq(MonthNames[m], 1, 3)}
    IN  IF hits = {} THEN 0 ELSE CHOOSE m \in hits : TRUE

NoneDate == [k |-> "None", v |-> 0]

\* parse_week_label_to_period; datetime(0, month, 1) raises ValueError
parse_week_label_to_period(label) ==
    LET m == re_search(label) IN
    IF ~m.ok THEN NoneDate
    ELSE IF strptime_month(m.month_str) = 0 THEN NoneDate
    ELSE IF DigitsToNat(m.year) = 0 THEN [k |-> "ValueError", v |-> 0]
    ELSE LET first     == DaysFromCivil(DigitsToNat(m.year), strptime_month(m.month_str), 1)
             delta     == Weekday(first) % 7
             first_mon == IF delta # 0 THEN first - delta ELSE first
         IN  [k |-> "date", v |-> first_mon + 7 * (DigitsToNat(m.wnum) - 1)]

\* Labels put together from a prefix, the word, the number, the separator, a
\* month and a year.
LabelParts ==
    [prefix : {<<>>, <<"F", "Y", "2", "5", " ">>},
     word   : {<<"W", "e", "e", "k">>, <<"w", "e", "e", "k">>},
     wnum   : {<<"1">>, <<" ", "4">>, <<"1", "0", " ">>},
     sep    : {<<",">>, <<" ", ",", " ">>, <<" ">>},
     month  : {<<"J", "a", "n", "u", "a", "r", "y">>, <<"j", "a", "n">>, <<"S", "e", "p", "t">>, <<"J", "U", "L", "Y">>, <<"M", "a", "r">>},
     year   : {<<" ", "2", "0", "2", "5">>, <<"2", "0", "2", "4">>, <<" ", "0", "0", "0", "0">>, <<" ", "2", "0", "2">>}]

LabelOf(p) == p.prefix \o p.word \o p.wnum \o p.sep \o p.month \o p.year

InitLabel ==
    /\ prog = "parse_week_label" /\ pc = "start"
    /\ \E p \in LabelParts :
          week_label = [parts |-> p, label |-> LabelOf(p), result |-> NoneDate]
    /\ ToolOff
    /\ dates = Off /\ wide = Off /\ db = Off /\ portal = Off

ParseWeekLabel ==
    /\ prog = "parse_week_label" /\ pc = "start"
    /\ week_label' = [week_label EXCEPT !.result = parse_week_label_to_period(week_label.label)]
    /\ pc' = "returned"
    /\ UNCHANGED <<prog, toolVars, dates, wide, db, portal>>

SpecLabel == InitLabel /\ [][ParseWeekLabel]_vars

Metrics == {"PlannedUtilization%", "ActualUtilization%", "PlannedHours", "ActualHours"}

\* the records pivot_table aggregates: groupby drops the keys with a missing
\* WeekLabel, and dropna drops what "first" leaves without a value
Kept(records) ==
    {k \in 1..Len(records) : records[k].WeekLabel # None /\ records[k].Value.ok}

\* aggfunc="first": the first value of the group that is not missing
FirstValue(records, person, label, metric) ==
    LET ks == {k \in Kept(records) : /\ records[k].Person = person
                                      /\ records[k].WeekLabel = label
                                      /\ records[k].Metric = metric}
    IN  IF ks = {} THEN NaN ELSE records[CHOOSE k \in ks : \A j \in ks : k <= j].Value

\* (Person, WeekLabel) index keys in sorted order
LabelKeyLess(a, b) == StrLess(a[1], b[1]) \/ (a[1] = b[1] /\ StrLess(a[2], b[2]))

\* line 123: tall.pivot_table(index=["Person","WeekLabel"], columns="Metric",
\* values="Value", aggfunc="first").reset_index()
pivot_table(records) ==
    LET keys == SortKeys({<<records[k].Person, records[k].WeekLabel>> : k \in Kept(records)},
                         LabelKeyLess)
    IN  [columns |-> {records[k].Metric : k \in Kept(records)},
         rows    |-> [n \in 1..Len(keys) |->
                        [Person    |-> keys[n][1],
                         WeekLabel |-> keys[n][2],
                         Metric    |-> [m \in Metrics |->
                                          FirstValue(records, keys[n][1], keys[n][2], m)]]]]

\* lines 125-126: wide["PlannedHours"] - wide["ActualHours"]
AvailabilityOf(columnSet, r) ==
    IF {"ActualHours", "PlannedHours"} \subseteq columnSet
       /\ r.Metric["PlannedHours"].ok /\ r.Metric["ActualHours"].ok
    THEN Val(r.Metric["PlannedHours"].v - r.Metric["ActualHours"].v)
    ELSE NaN

\* the quotient in hundredths of a percent; a zero divisor gives inf or nan,
\* which line 131 turns into nan
HoursRatio(r) ==
    IF r.Metric["PlannedHours"].ok /\ r.Metric["ActualHours"].ok
       /\ r.Metric["PlannedHours"].v # 0
    THEN Val(RoundDiv(r.Metric["ActualHours"].v * 10000, r.Metric["PlannedHours"].v))
    ELSE NaN

\* lines 127-131: the ActualUtilization% column when the frame has one, else
\* the ratio of the hours columns when the frame has both
UtilizationOfWide(columnSet, r) ==
    IF "ActualUtilization%" \in columnSet
    THEN IF r.Metric["ActualUtilization%"].ok
         THEN Val(r.Metric["ActualUtilization%"].v * 100) ELSE NaN
    ELSE IF {"ActualHours", "PlannedHours"} \subseteq columnSet THEN HoursRatio(r)
    ELSE NaN

\* lines 124-134: the derived columns of the pivoted frame
Derived(w) ==
    [columns |-> w.columns
                 \cup (IF {"ActualHours", "PlannedHours"} \subseteq w.columns
                       THEN {"AvailabilityHours"} ELSE {})
                 \cup (IF "ActualUtilization%" \in w.columns
                          \/ {"ActualHours", "PlannedHours"} \subseteq w.columns
                       THEN {"Utilization%"} ELSE {})
                 \cup {"PeriodStart"},
     rows    |-> [n \in 1..Len(w.rows) |->
                    [Person            |-> w.rows[n].Person,
                     WeekLabel         |-> w.rows[n].WeekLabel,
                     Metric            |-> w.rows[n].Metric,
                     AvailabilityHours |-> AvailabilityOf(w.columns, w.rows[n]),
                     Utilization       |-> UtilizationOfWide(w.columns, w.rows[n]),
                     PeriodStart       |-> parse_week_label_to_period(w.rows[n].WeekLabel)]]]

\* lines 191-208: Summary by person; sum skips the missing (0 when all are),
\* mean of nothing is nan
WideSummary(view) ==
    LET persons == SortKeys({view[n].Person : n \in 1..Len(view)}, StrLess)
        mine(p) == {n \in 1..Len(view) : view[n].Person = p}
        has(p, m) == {n \in mine(p) : view[n].Metric[m].ok}
        utld(p) == {n \in mine(p) : view[n].Utilization.ok}
    IN  [k \in 1..Len(persons) |->
            [Person            |-> persons[k],
             TotalActualHours  |-> SumOver(has(persons[k], "ActualHours"),
                                      [n \in 1..Len(view) |-> view[n].Metric["ActualHours"].v]),
             TotalPlannedHours |-> SumOver(has(persons[k], "PlannedHours"),
                                      [n \in 1..Len(view) |-> view[n].Metric["PlannedHours"].v]),
             AvgUtilizationPct |->
                [ok    |-> utld(persons[k]) # {},
                 sum   |-> SumOver(utld(persons[k]), [n \in 1..Len(view) |-> view[n].Utilization.v]),
                 count |-> Cardinality(utld(persons[k]))]]]

-----------------------------------------------------------------------------
(* The dashboard in "Risk Projects List Parser" mode, on sheets of a label *)
(* column and two person columns, with up to MaxWideRows rows under the    *)
(* row of names.                                                           *)

MaxWideRows == 4                   \* rows under the row of names

TopRows ==
    { <<Text(<<"W", "e", "e", "k">>), Text(<<" ", "A", "l", "i", "c", "e", " ">>), Text(<<"B", "o", "b">>)>>,
      <<Blank, Text(<<"U", "t", "i", "l", "i", "z", "a", "t", "i", "o", "n">>), Num(5)>> }

WideRowPool ==
    { <<Text(<<"W", "e", "e", "k", " ", "1", ",", " ", "J", "a", "n", "u", "a", "r", "y", " ", "2", "0", "2", "5">>), Text(<<"P", "l", "a", "n", "n", "e", "d", " ", "H", "o", "u", "r", "s">>), Text(<<"A", "c", "t", "u", "a", "l", " ", "U", "t", "i", "l", "i", "z", "a", "t", "i", "o", "n", " ", "%">>)>>,
      <<Text(<<"w", "e", "e", "k", " ", "2">>), Text(<<"W", "e", "e", "k", " ", "9">>), Text(<<"A", "c", "t", "u", "a", "l", " ", "H", "o", "u", "r", "s">>)>>,
      <<Blank, Text(<<"A", "c", "t", "u", "a", "l", " ", "H", "o", "u", "r", "s">>), Num(50)>>,
      <<Blank, Num(40), Blank>>,
      <<Blank, Blank, Text(<<"n", "/", "a">>)>>,
      <<Text(<<"W", "e", "e", "k">>), Num(0), Text(<<"T", "o", "t", "a", "l", " ", "f", "o", "r", " ", "w", "e", "e", "k", " ", "7">>)>> }

NoFrame == [columns |-> {}, rows |-> <<>>]

InitWide ==
    /\ prog = "wide" /\ pc = "start"
    /\ \E top \in TopRows :
       \E body \in UNION {[1..n -> WideRowPool] : n \in 0..MaxWideRows} :
          wide = [df |-> <<top>> \o body, person_cols |-> <<>>, i |-> 1,
                  current_week |-> None, records |-> <<>>, frame |-> NoFrame,
                  sum_person |-> <<>>]
    /\ ToolOff
    /\ dates = Off /\ week_label = Off /\ db = Off /\ portal = Off

\* lines 70-73: no person column, no parse
DetectPersonColumns ==
    /\ prog = "wide" /\ pc = "start"
    /\ wide' = [wide EXCEPT !.person_cols = detect_person_columns(wide.df)]
    /\ pc' = IF detect_person_columns(wide.df) = <<>> THEN "stopped" ELSE "scan"
    /\ UNCHANGED <<prog, toolVars, dates, week_label, db, portal>>

\* lines 79-115: one turn of the loop over the rows
ScanRow ==
    /\ prog = "wide" /\ pc = "scan" /\ wide.i < Len(wide.df)
    /\ LET current == CurrentWeek(Iloc(wide.df, wide.i), wide.current_week) IN
       wide' = [wide EXCEPT
                   !.current_week = current,
                   !.records = wide.records \o
                               RowRecords(wide.df, wide.person_cols, wide.i, current),
                   !.i = wide.i + 1]
    /\ UNCHANGED <<prog, pc, toolVars, dates, week_label, db, portal>>

\* lines 117-123: after the last row
Pivot ==
    /\ prog = "wide" /\ pc = "scan" /\ wide.i >= Len(wide.df)
    /\ IF wide.records = <<>>
       THEN pc' = "stopped" /\ wide' = wide
       ELSE pc' = "pivoted" /\ wide' = [wide EXCEPT !.frame = pivot_table(wide.records)]
    /\ UNCHANGED <<prog, toolVars, dates, week_label, db, portal>>

\* lines 124-135
Derive ==
    /\ prog = "wide" /\ pc = "pivoted"
    /\ wide' = [wide EXCEPT !.frame = Derived(wide.frame)]
    /\ pc' = IF \E n \in 1..Len(wide.frame.rows) :
                   parse_week_label_to_period(wide.frame.rows[n].WeekLabel).k = "ValueError"
             THEN "ValueError" ELSE "parsed"
    /\ UNCHANGED <<prog, toolVars, dates, week_label, db, portal>>

\* lines 182-215: stop on an empty frame, else the view of all people and
\* the summary by person
Summarize ==
    /\ prog = "wide" /\ pc = "parsed"
    /\ IF wide.frame.rows = <<>>
       THEN pc' = "stopped" /\ wide' = wide
       ELSE pc' = "shown" /\ wide' = [wide EXCEPT !.sum_person = WideSummary(wide.frame.rows)]
    /\ UNCHANGED <<prog, toolVars, dates, week_label, db, portal>>

NextWide == DetectPersonColumns \/ ScanRow \/ Pivot \/ Derive \/ Summarize

SpecWide == InitWide /\ [][NextWide]_vars

-----------------------------------------------------------------------------
(* The two bulk importers of the timesheet database: import_excel of       *)
(* bulk_import.py and upsert_from_df of timesheet_app.py. db holds the     *)
(* sheet, the position of the loop over its rows, the committed entries    *)
(* table, the rows the open connection has inserted and not committed, and *)
(* the exception the importer raised.                                      *)

MaxImportRows == 3

ImportRow(e, d, p, m, a) ==
    [employee_id |-> e, date |-> d, project_code |-> p, man_days |-> m, activity |-> a]

RequiredColumns == {"employee_id", "date", "project_code", "man_days", "activity"}

\* the NOT NULL columns of the entries table that the importers bind from the sheet
NotNullColumns == {"employee_id", "date", "project_code", "man_days", "activity"}

\* the loop over `required`: some required column is not in df.columns
MissingColumn(present) == RequiredColumns \ present # {}

\* pd.to_datetime(df["date"]) without errors="coerce": a text that is no date
\* raises, an empty cell becomes NaT
DateRaises(rows) ==
    \E i \in 1..Len(rows) : rows[i].date.k = "text" /\ ~to_datetime(rows[i].date).ok

\* df["man_days"].isna().any() after to_numeric(errors="coerce")
NonNumeric(rows) == \E i \in 1..Len(rows) : ~to_numeric(rows[i].man_days).ok

\* the checks both importers run before the first INSERT
ValidationRaises(present, rows) == MissingColumn(present) \/ DateRaises(rows) \/ NonNumeric(rows)

\* str(value).strip(): the text of an empty cell is "nan"
StrOf(c) == IF c.k = "text" THEN Val(Strip(c.s)) ELSE Val(<<"n", "a", "n">>)

\* the value itself as an SQL parameter: NaN is bound as NULL
Param(c) == IF c.k = "text" THEN Val(c.s) ELSE NaN

\* the parameters import_excel binds for one row; the date is the NaN that
\* strftime leaves for NaT, else the day the text "%Y-%m-%d" names
ImportExcelParams(r) ==
    [employee_id  |-> StrOf(r.employee_id),
     date         |-> to_datetime(r.date),
     project_code |-> StrOf(r.project_code),
     man_days     |-> to_numeric(r.man_days),
     activity     |-> StrOf(r.activity)]

\* the parameters insert_entry binds for one row
InsertEntryParams(r) ==
    [employee_id  |-> Param(r.employee_id),
     date         |-> to_datetime(r.date),
     project_code |-> Param(r.project_code),
     man_days     |-> to_numeric(r.man_days),
     activity     |-> Param(r.activity)]

\* the INSERT fails: a NOT NULL column would receive NULL
NotNullFails(params) == \E f \in NotNullColumns : ~params[f].ok

\* the entry an INSERT that succeeds adds
Entry(params) == [f \in NotNullColumns |-> params[f].v]

\* an entry the table holds before the import
OldEntry ==
    [employee_id |-> <<"E", "0">>, date |-> DaysFromCivil(2024, 12, 31), project_code |-> <<"P", "0">>,
     man_days |-> 1, activity |-> <<"o", "l", "d">>]

\* sheet rows: two that import, one with an empty date cell, one with an
\* empty activity cell, one whose date is no date, one whose man_days is no
\* number
ImportRowPool ==
    { ImportRow(Text(<<"E", "1">>), DateOf(DaysFromCivil(2025, 1, 6)), Text(<<"P", "1">>), Num(1), Text(<<"d", "e", "v">>)),
      ImportRow(Text(<<" ", "E", "2">>), Text(<<"2", "0", "2", "5", "-", "0", "1", "-", "0", "7">>), Text(<<"P", "1">>), Text(<<"2">>), Text(<<"t", "e", "s", "t", " ">>)),
      ImportRow(Text(<<"E", "1">>), Blank, Text(<<"P", "1">>), Num(1), Text(<<"d", "e", "v">>)),
      ImportRow(Text(<<"E", "2">>), DateOf(DaysFromCivil(2025, 1, 8)), Text(<<"P", "2">>), Num(1), Blank),
      ImportRow(Text(<<"E", "1">>), Text(<<"t", "b", "d">>), Text(<<"P", "1">>), Num(1), Text(<<"d", "e", "v">>)),
      ImportRow(Text(<<"E", "2">>), DateOf(DaysFromCivil(2025, 1, 9)), Text(<<"P", "2">>), Text(<<"h", "a", "l", "f">>), Text(<<"d", "e", "v">>)) }

Importers == {"import_excel", "upsert_from_df"}

InitImport ==
    /\ prog \in Importers /\ pc = "start"
    /\ \E present \in {RequiredColumns, RequiredColumns \ {"activity"}} :
       \E rows \in UNION {[1..n -> ImportRowPool] : n \in 0..MaxImportRows} :
       \E entries \in {<<>>, <<OldEntry>>} :
          db = [columns |-> present, rows |-> rows, i |-> 1, entries |-> entries,
                pending |-> <<>>, raised |-> "", count |-> 0]
    /\ ToolOff
    /\ dates = Off /\ week_label = Off /\ wide = Off /\ portal = Off

\* bulk_import.py lines 33-41: the checks before the connection is opened
ImportExcelValidate ==
    /\ prog = "import_excel" /\ pc = "start"
    /\ IF ValidationRaises(db.columns, db.rows)
       THEN pc' = "raised" /\ db' = [db EXCEPT !.raised = "ValueError"]
       ELSE pc' = "insert" /\ db' = db
    /\ UNCHANGED <<prog, toolVars, dates, week_label, wide, portal>>

\* bulk_import.py lines 46-59: one INSERT on the one connection; an INSERT
\* that fails leaves the with-block, which closes the connection without a
\* commit and so rolls back the rows inserted before
ImportExcelInsert ==
    /\ prog = "import_excel" /\ pc = "insert" /\ db.i <= Len(db.rows)
    /\ LET params == ImportExcelParams(db.rows[db.i]) IN
       IF NotNullFails(params)
       THEN /\ pc' = "raised"
            /\ db' = [db EXCEPT !.raised = "IntegrityError", !.pending = <<>>]
       ELSE /\ pc' = pc
            /\ db' = [db EXCEPT !.pending = Append(@, Entry(params)),
                                !.i = @ + 1, !.count = @ + 1]
    /\ UNCHANGED <<prog, toolVars, dates, week_label, wide, portal>>

\* bulk_import.py lines 60-61: the one commit, after the last row
ImportExcelCommit ==
    /\ prog = "import_excel" /\ pc = "insert" /\ db.i > Len(db.rows)
    /\ db' = [db EXCEPT !.entries = @ \o db.pending, !.pending = <<>>]
    /\ pc' = "returned"
    /\ UNCHANGED <<prog, toolVars, dates, week_label, wide, portal>>

\* timesheet_app.py lines 77-86: the same checks
UpsertValidate ==
    /\ prog = "upsert_from_df" /\ pc = "start"
    /\ IF ValidationRaises(db.columns, db.rows)
       THEN pc' = "raised" /\ db' = [db EXCEPT !.raised = "ValueError"]
       ELSE pc' = "insert" /\ db' = db
    /\ UNCHANGED <<prog, toolVars, dates, week_label, wide, portal>>

\* timesheet_app.py lines 87-88 and 33-48: insert_entry for one row, on a
\* connection of its own: the INSERT and its commit, or the INSERT's failure
InsertEntry ==
    /\ prog = "upsert_from_df" /\ pc = "insert" /\ db.i <= Len(db.rows)
    /\ LET params == InsertEntryParams(db.rows[db.i]) IN
       IF NotNullFails(params)
       THEN /\ pc' = "raised"
            /\ db' = [db EXCEPT !.raised = "IntegrityError"]
       ELSE /\ pc' = pc
            /\ db' = [db EXCEPT !.entries = Append(@, Entry(params)),
                                !.i = @ + 1, !.count = @ + 1]
    /\ UNCHANGED <<prog, toolVars, dates, week_label, wide, portal>>

\* timesheet_app.py line 87: the loop is over
UpsertReturn ==
    /\ prog = "upsert_from_df" /\ pc = "insert" /\ db.i > Len(db.rows)
    /\ pc' = "returned"
    /\ UNCHANGED <<prog, toolVars, db, dates, week_label, wide, portal>>

NextImport ==
    \/ ImportExcelValidate \/ ImportExcelInsert \/ ImportExcelCommit
    \/ UpsertValidate \/ InsertEntry \/ UpsertReturn

SpecImport == InitImport /\ [][NextImport]_vars

-----------------------------------------------------------------------------
(* The portal automation of project_list_automation.py: main's run over    *)
(* the rows of the sheet, and submit_entry with its retries. portal holds  *)
(* the sheet, the position of the loop, the number of the attempt under    *)
(* way, the rows the HR portal has saved (one item per save, in order),    *)
(* success_rows and failed_rows (as row numbers), the browser, the report  *)
(* files written and the exit status.                                      *)

MaxPortalRows == 3

\* stop_after_attempt(3)
MaxAttempts == 3

\* coerce_date: strptime(str(s), "%Y-%m-%d"); only a text passes, str() of a
\* native date carries the time of day, str() of an empty cell is "nan"
coerce_date(c) == IF c.k = "text" THEN ParseISODate(c.s) ELSE NaN

\* validate_frame raises ValueError
ValidateFrameRaises(present, rows) ==
    \/ RequiredColumns \ present # {}
    \/ \E i \in 1..Len(rows) : ~coerce_date(rows[i].date).ok
    \/ \E i \in 1..Len(rows) : ~to_numeric(rows[i].man_days).ok
    \/ \E i \in 1..Len(rows) : to_numeric(rows[i].man_days).v < 0

\* what one attempt of submit_entry can meet in the browser and the portal:
\*   "toast"       the save is clicked, the portal saves, the toast shows
\*   "late_toast"  the save is clicked, the portal saves, the wait for the
\*                 toast times out
\*   "rejected"    the save is clicked, the portal saves nothing, no toast
\*   "no_form"     a wait or an element lookup fails before the save click
\*   "other"       an exception that is no WebDriverException, before the
\*                 save click
AttemptOutcomes == {"toast", "late_toast", "rejected", "no_form", "other"}

\* the outcomes in which the portal saves the entry
Saving == {"toast", "late_toast"}

\* retry_if_exception_type((TimeoutException, NoSuchElementException, WebDriverException))
Retried == {"late_toast", "rejected", "no_form"}

\* sheet rows: two that pass validate_frame, one with a native date cell,
\* one whose man_days is no number, one whose man_days is negative
PortalRowPool ==
    { ImportRow(Text(<<"E", "1">>), Text(<<"2", "0", "2", "5", "-", "0", "1", "-", "0", "6">>), Text(<<"P", "1">>), Num(1), Text(<<"d", "e", "v">>)),
      ImportRow(Text(<<"E", "2">>), Text(<<"2", "0", "2", "5", "-", "0", "1", "-", "0", "7">>), Text(<<"P", "1">>), Text(<<"2">>), Blank),
      ImportRow(Text(<<"E", "1">>), DateOf(DaysFromCivil(2025, 1, 8)), Text(<<"P", "1">>), Num(1), Text(<<"d", "e", "v">>)),
      ImportRow(Text(<<"E", "2">>), Text(<<"2", "0", "2", "5", "-", "0", "1", "-", "0", "9">>), Text(<<"P", "2">>), Text(<<"h", "a", "l", "f">>), Text(<<"d", "e", "v">>)),
      ImportRow(Text(<<"E", "2">>), Text(<<"2", "0", "2", "5", "-", "0", "1", "-", "1", "0">>), Text(<<"P", "2">>), Num(-1), Text(<<"d", "e", "v">>)) }

InitPortal ==
    /\ prog = "portal" /\ pc = "start"
    /\ \E present \in {RequiredColumns, RequiredColumns \ {"activity"}} :
       \E rows \in UNION {[1..n -> PortalRowPool] : n \in 0..MaxPortalRows} :
          portal = [columns |-> present, rows |-> rows, i |-> 1, attempt |-> 1,
                    saved |-> <<>>, success_rows |-> <<>>, failed_rows |-> <<>>,
                    driver |-> "none", ok_csv |-> FALSE, fail_csv |-> FALSE,
                    exit |-> -1]
    /\ ToolOff
    /\ dates = Off /\ week_label = Off /\ wide = Off /\ db = Off

\* main lines 204-208: validate_frame, exit status 1 when it raises
ValidateFrame ==
    /\ prog = "portal" /\ pc = "start"
    /\ IF ValidateFrameRaises(portal.columns, portal.rows)
       THEN pc' = "exited" /\ portal' = [portal EXCEPT !.exit = 1]
       ELSE pc' = "validated" /\ portal' = portal
    /\ UNCHANGED <<prog, toolVars, dates, week_label, wide, db>>

\* main lines 212-216 and 230-231: the browser, login and the timesheet
\* form; when the form cannot be opened the exception leaves main through
\* the finally that quits the browser
OpenPortal ==
    /\ prog = "portal" /\ pc = "validated"
    /\ \E opened \in BOOLEAN :
          IF opened
          THEN pc' = "loop" /\ portal' = [portal EXCEPT !.driver = "open"]
          ELSE pc' = "crashed" /\ portal' = [portal EXCEPT !.driver = "quit"]
    /\ UNCHANGED <<prog, toolVars, dates, week_label, wide, db>>

\* the loop leaves a row out
NextRowSkipping(p) == [p EXCEPT !.i = @ + 2, !.attempt = 1]

\* the row is done: the loop goes to the next row
NextRow(p) == [p EXCEPT !.i = @ + 1, !.attempt = 1]

\* lines 114-167 and 218-228: one attempt of submit_entry for the row of the
\* loop, and what follows it: the return into success_rows, another
\* attempt, or the exception into failed_rows
SubmitAttempt ==
    /\ prog = "portal" /\ pc = "loop" /\ portal.i <= Len(portal.rows)
    /\ \E outcome \in AttemptOutcomes :
          LET p == [portal EXCEPT
                       !.saved = IF outcome \in Saving THEN Append(@, portal.i) ELSE @]
          IN  portal' =
                 IF outcome = "toast"
                 THEN NextRow([p EXCEPT !.success_rows = Append(@, portal.i)])
                 ELSE IF outcome \in Retried /\ portal.attempt < MaxAttempts
                 THEN [p EXCEPT !.attempt = @ + 1]
                 ELSE NextRow([p EXCEPT !.failed_rows = Append(@, portal.i)])
    /\ UNCHANGED <<prog, pc, toolVars, dates, week_label, wide, db>>

\* lines 218 and 230-231: the loop is over, the browser is quit
QuitDriver ==
    /\ prog = "portal" /\ pc = "loop" /\ portal.i > Len(portal.rows)
    /\ portal' = [portal EXCEPT !.driver = "quit"]
    /\ pc' = "quit"
    /\ UNCHANGED <<prog, toolVars, dates, week_label, wide, db>>

\* lines 233-247: the two report files and the exit status
WriteReports ==
    /\ prog = "portal" /\ pc = "quit"
    /\ portal' = [portal EXCEPT
                     !.ok_csv = portal.success_rows # <<>>,
                     !.fail_csv = portal.failed_rows # <<>>,
                     !.exit = IF portal.failed_rows # <<>> /\ portal.success_rows = <<>>
                              THEN 2 ELSE 0]
    /\ pc' = "exited"
    /\ UNCHANGED <<prog, toolVars, dates, week_label, wide, db>>

NextPortal == ValidateFrame \/ OpenPortal \/ SubmitAttempt \/ QuitDriver \/ WriteReports

SpecPortal == InitPortal /\ [][NextPortal]_vars

-----------------------------------------------------------------------------
(* Properties of the report pipeline, checked under Spec.                  *)

ToolAt(positions) == prog = "tool" /\ pc \in positions

\* the dates the pipeline's own period key puts in the period that starts at p
DatesOfPeriod(p, period, week_start) ==
    {d \in (p - 1)..(p + 400) : PeriodKey(d, period, week_start) = p}

\* Scenario A's input: the three entries, weekly, Monday weeks, 8 h/day, no
\* holidays, no capacity column
ScenarioA ==
    /\ prog = "tool"
    /\ table = <<RowA1, RowA2, RowA3>>
    /\ args.period = "weekly" /\ args.week_start = "MON"
    /\ args.work_hours_per_day = 8 /\ args.holidays = {}
    /\ \A i \in 1..Len(columns) : ColumnField[Strip(columns[i])] # "capacity"

UtilizationRow(person, period, booked, capacity, pct100) ==
    [person |-> person, period |-> period, BookedHours |-> booked,
     CapacityHours |-> Val(capacity), Utilization |-> Val(pct100)]

\* C1: on Scenario A the Utilization sheet has exactly two rows, both starting
\* 2025-01-06: Alice 16 h of 40 h = 40.00 %, Bob 4 h of 40 h = 10.00 %.
C1_ScenarioA ==
    (ScenarioA /\ pc \in {"KeyError", "done"}) =>
        /\ pc = "done"
        /\ {written.Utilization[i] : i \in 1..Len(written.Utilization)} =
              { UtilizationRow(Alice, DaysFromCivil(2025, 1, 6), 16, 40, 4000),
                UtilizationRow(Bob, DaysFromCivil(2025, 1, 6), 4, 40, 1000) }

\* C2: a weekly period starts on the latest date <= d that falls on the
\* configured week-start weekday (Monday or Sunday), in main and in
\* tidy_timesheet_pipeline.
C2_WeeklyAlignment ==
    LET startDay == IF args.week_start = "MON" THEN 0 ELSE 6 IN
    /\ (ToolAt({"keyed", "grouped", "capacity", "merged", "breakdown", "done"})
            /\ args.period = "weekly") =>
          \A i \in 1..Len(df) :
              /\ Weekday(df[i].period) = startDay
              /\ df[i].period <= df[i].date
              /\ df[i].date - df[i].period <= 6
    /\ (prog = "app" /\ pc = "done") =>
          \A i \in 1..Len(agg) : Weekday(agg[i].PeriodStart) = startDay

\* C3: for every granularity, the end date the capacity loop uses is the last
\* day of the period: the range [p, pend] holds exactly the dates whose period
\* start is p.
C3_PeriodEndIsLastDay ==
    (ToolAt({"capacity", "merged", "breakdown", "done"}) /\ cols.cap = None) =>
        \A j \in 1..Len(cap.rows) :
            LET p == cap.rows[j].period IN
            p..PeriodEnd(p, args.period) = DatesOfPeriod(p, args.period, args.week_start)

\* C4: derived capacity of a bucket is work_hours_per_day times the number of
\* Monday-Friday, non-holiday dates inside the bucket's period; so a weekly
\* period without holidays has 5 x work_hours_per_day.
C4_DerivedCapacity ==
    (ToolAt({"capacity", "merged", "breakdown", "done"}) /\ cols.cap = None) =>
        \A j \in 1..Len(cap.rows) :
            LET p == cap.rows[j].period
                inside == DatesOfPeriod(p, args.period, args.week_start)
            IN  /\ cap.rows[j].CapacityHours =
                      args.work_hours_per_day *
                      Cardinality({d \in inside : Weekday(d) < 5 /\ d \notin args.holidays})
                /\ (args.period = "weekly" /\ args.holidays = {}) =>
                      cap.rows[j].CapacityHours = 5 * args.work_hours_per_day

\* C5: in every bucket utilization is undefined exactly when capacity is
\* undefined or zero, and a defined utilization has capacity > 0 and equals
\* round(booked / capacity * 100, 2).
C5_UtilizationIffCapacity ==
    ToolAt({"merged", "breakdown", "done"}) =>
        \A i \in 1..Len(out) :
            LET raw == MergedCapacity(grouped[i], cap) IN
            /\ (~raw.ok \/ raw.v = 0) <=> ~out[i].Utilization.ok
            /\ out[i].Utilization.ok =>
                  /\ out[i].CapacityHours.ok /\ out[i].CapacityHours.v > 0
                  /\ out[i].Utilization.v =
                        RoundDiv(out[i].BookedHours * 10000, out[i].CapacityHours.v)

\* C6: when a project column resolves, the ByProject hours of a person and
\* period add up to that bucket's BookedHours, blank project cells included.
C6_PartitionLaw ==
    (ToolAt({"breakdown", "done"}) /\ by_project.present) =>
        \A i \in 1..Len(out) :
            LET part == {k \in 1..Len(by_project.rows) :
                            /\ by_project.rows[k].person = out[i].person
                            /\ by_project.rows[k].period = out[i].period}
            IN  SumOver(part, [k \in 1..Len(by_project.rows) |->
                                  by_project.rows[k].BookedHours]) = out[i].BookedHours

\* a row the strict policy rejects: bad date, non-numeric hours, negative hours
Offending(row) ==
    \/ ~to_datetime(Cell(row, cols.date)).ok
    \/ ~to_numeric(Cell(row, cols.hours)).ok
    \/ to_numeric(Cell(row, cols.hours)).v < 0

\* C7: validation is strict by default: a sheet with an offending row makes
\* the call fail without building or writing any result table.
C7_StrictByDefault ==
    (ToolAt({"coerced", "keyed", "grouped", "capacity", "merged", "breakdown", "done"})
        /\ \E i \in 1..Len(table) : Offending(table[i])) =>
            /\ pc \notin {"merged", "breakdown", "done"}
            /\ out = <<>> /\ written = NotWritten

\* C8: every row that survives canonicalization has a non-empty trimmed
\* person and hours >= 0, so no bucket has an empty person or negative hours,
\* in main and in tidy_timesheet_pipeline.
C8_CanonicalEntries ==
    /\ ToolAt({"coerced", "keyed", "grouped", "capacity", "merged", "breakdown", "done"}) =>
          /\ \A i \in 1..Len(df) : df[i].person # <<>> /\ df[i].hours >= 0
          /\ \A i \in 1..Len(grouped) :
                grouped[i].person # <<>> /\ grouped[i].BookedHours >= 0
    /\ (prog = "app" /\ pc = "done") =>
          \A i \in 1..Len(agg) : agg[i].Person # <<>> /\ agg[i].ActualHours >= 0

-----------------------------------------------------------------------------
(* Properties of column identification.                                    *)

RequiredFields == {"person", "date", "hours"}

Unresolved == {k \in RequiredFields : cols[k] = None}

Untouched ==
    /\ df = <<>> /\ grouped = <<>> /\ cap = NoCapacity /\ out = <<>>
    /\ by_project = NoByProject /\ written = NotWritten

\* C9: a required field (person, date, hours) that does not resolve stops the
\* call before any coercion, aggregation or output, with one report that
\* names every unresolved required field and the full list of columns; the
\* call gets past identification exactly when all three resolve, whether or
\* not capacity and project do.
C9_MissingFieldFailure ==
    prog = "tool" =>
        /\ pc = "exit2" =>
              /\ Unresolved # {}
              /\ {stderr.missing[i] : i \in 1..Len(stderr.missing)} = Unresolved
              /\ Len(stderr.missing) = Cardinality(Unresolved)
              /\ stderr.columns = columns
              /\ Untouched
              /\ ~ENABLED NextTool
        /\ pc \notin {"start", "exit2"} => Unresolved = {} /\ stderr = NoError
        /\ pc = "start" => Untouched /\ stderr = NoError

\* two required fields are missing on a sheet that has rows
C9_Witness ==
    /\ prog = "tool" /\ pc = "exit2"
    /\ Cardinality(Unresolved) = 2 /\ Len(stderr.missing) = 2
    /\ table # <<>> /\ cols.cap # None

\* the columns each stage of the chain accepts
StageSoft == {c \in {columns[i] : i \in 1..Len(columns)} :
                \E k \in 1..Len(query.fallbacks) : Lower(c) = query.fallbacks[k]}

StageContains == {c \in {columns[i] : i \in 1..Len(columns)} :
                    \E k \in 1..Len(query.fallbacks) : Contains(Lower(c), query.fallbacks[k])}

\* the result the chain prescribes, given the columns its first stage accepts
ChainResult(stageOverride) ==
    IF stageOverride # {} THEN found \in stageOverride
    ELSE IF StageSoft # {} THEN found \in StageSoft
    ELSE IF StageContains # {} THEN found \in StageContains
    ELSE found = None

\* Scenario D: Employee / Work Date / Hrs with no override
ScenarioD ==
    (columns = <<Employee, WorkDate, Hrs>> /\ query.preferred = None) =>
        /\ query.fallbacks = FALLBACK_PERSON_COLS => found = Employee
        /\ query.fallbacks = FALLBACK_DATE_COLS => found = WorkDate
        /\ query.fallbacks = FALLBACK_HOURS_COLS => found = Hrs

\* C10 as stated: stage 1 takes the column equal to the override up to case.
C10_Original ==
    (prog = "find_col" /\ pc = "returned") =>
        /\ ChainResult({c \in {columns[i] : i \in 1..Len(columns)} :
                          query.preferred # None /\ Lower(c) = Lower(query.preferred)})
        /\ ScenarioD

\* C10 amended: stage 1 takes the column equal to the override up to case and
\* surrounding whitespace; then a column equal to a synonym up to case; then
\* a column whose lower-case name contains a synonym; else nothing. A later
\* stage is used only when the earlier ones accept no column.
C10_PriorityChain ==
    (prog = "find_col" /\ pc = "returned") =>
        /\ ChainResult({c \in {columns[i] : i \in 1..Len(columns)} :
                          query.preferred # None
                          /\ Lower(Strip(c)) = Lower(Strip(query.preferred))})
        /\ ScenarioD

\* an override that matches nothing, no exact synonym, a substring match
C10_Witness ==
    /\ prog = "find_col" /\ pc = "returned"
    /\ query.preferred # None
    /\ \A i \in 1..Len(columns) : Lower(Strip(columns[i])) # Lower(Strip(query.preferred))
    /\ StageSoft = {} /\ StageContains # {}
    /\ found \in StageContains

\* C11: the period start is idempotent for every date, granularity and
\* week-start: the start of a period's start is that start; and the dates from
\* a period's start up to a date of the period all map to the same start.
C11_PeriodStartIdempotent ==
    (prog = "period" /\ pc = "rekeyed") =>
        /\ dates.again = dates.start
        /\ dates.start.v <= dates.d
        /\ (dates.start.v <= dates.e /\ dates.e <= dates.d) => dates.other = dates.start

\* a weekly period taken of a date inside the week, with another date between
C11_Witness ==
    /\ prog = "period" /\ pc = "rekeyed" /\ dates.period = "weekly"
    /\ dates.start.v < dates.e /\ dates.e < dates.d
    /\ dates.again = dates.start /\ dates.other = dates.start


\* the parts of a label that has the form "Week n, MonthName year" in any case
WellFormed(p) ==
    /\ p.prefix = <<>>
    /\ \E i \in 1..Len(p.sep) : p.sep[i] = ","
    /\ strptime_month(p.month) # 0
    /\ Len(Strip(p.year)) = 4 /\ DigitsToNat(Strip(p.year)) > 0

\* the Monday on or before the first day of the month
MondayOnOrBefore(y, m) ==
    CHOOSE x \in (DaysFromCivil(y, m, 1) - 6)..DaysFromCivil(y, m, 1) : Weekday(x) = 0

\* C16: a label "Week n, MonthName year", in any case and with a full or an
\* abbreviated month name, gives M + 7 * (n - 1), M the Monday on or before the
\* first of the month (2024-12-30 for "Week 1, January 2025"); a label without
\* the comma, with no month name or with no four-digit year gives none.
C16_WeekLabelToDate ==
    (prog = "parse_week_label" /\ pc = "returned") =>
        LET p == week_label.parts IN
        /\ WellFormed(p) =>
              week_label.result =
                 [k |-> "date",
                  v |-> MondayOnOrBefore(DigitsToNat(Strip(p.year)), strptime_month(p.month))
                          + 7 * (DigitsToNat(Strip(p.wnum)) - 1)]
        /\ (Lower(week_label.label) = <<"w", "e", "e", "k", " ", "1", ",", "j", "a", "n", "u", "a", "r", "y", " ", "2", "0", "2", "5">>) =>
              week_label.result = [k |-> "date", v |-> DaysFromCivil(2024, 12, 30)]
        /\ (\/ \A i \in 1..Len(p.sep) : p.sep[i] # ","
            \/ strptime_month(p.month) = 0
            \/ Len(Strip(p.year)) < 4) => week_label.result = NoneDate


-----------------------------------------------------------------------------
(* Properties of the wide-sheet parser, checked under SpecWide.            *)

\* a turn of the scan loop
ScanStep == prog = "wide" /\ pc = "scan" /\ pc' = "scan"

\* the column of a person of the sheet
ColOf(person) ==
    LET k == CHOOSE k \in 1..Len(wide.person_cols) : wide.person_cols[k].person = person
    IN  wide.person_cols[k].col

\* a cell that holds a number
HoldsNumber(c) == c.k = "num" \/ (c.k = "text" /\ AllDigits(Strip(c.s)))

NumberIn(c) == IF c.k = "num" THEN c.n ELSE DigitsToNat(Strip(c.s))

\* the first number among the five cells under position i of a column
FirstNumberBelow(frame, col, i) ==
    LET js == {j \in (i + 1)..(i + 5) : j < Len(frame) /\ HoldsNumber(Iloc(frame, j)[col])}
    IN  IF js = {} THEN NaN
        ELSE Val(NumberIn(Iloc(frame, CHOOSE j \in js : \A h \in js : j <= h)[col]))

\* C12: the value emitted for a metric cell at row i is the first number among
\* rows i+1 .. i+5 of the same column, empty and non-numeric cells skipped, and
\* is undefined only when none of those cells holds a number.
C12_Lookahead ==
    [][ScanStep =>
          \A n \in (Len(wide.records) + 1)..Len(wide'.records) :
              wide'.records[n].Value =
                  FirstNumberBelow(wide.df, ColOf(wide'.records[n].Person), wide.i)]_vars

\* the week cells of a row, by column
WeekCells(row) ==
    {c \in 1..Len(row) : row[c].k = "text" /\ Contains(Lower(row[c].s), <<"w", "e", "e", "k">>)}

\* the longest week cell of a row, the leftmost of the longest
LabelOfRow(row) ==
    row[CHOOSE c \in WeekCells(row) :
            \A d \in WeekCells(row) :
                \/ Len(row[d].s) < Len(row[c].s)
                \/ (Len(row[d].s) = Len(row[c].s) /\ c <= d)].s

\* the label of the nearest row at or above position i, under the row of
\* names, that has a week cell
NearestLabel(frame, i) ==
    LET js == {j \in 1..i : WeekCells(Iloc(frame, j)) # {}} IN
    IF js = {} THEN None
    ELSE LabelOfRow(Iloc(frame, CHOOSE j \in js : \A h \in js : h <= j))

\* C13: every record emitted at row i carries the longest week cell (the first
\* of the longest) of the nearest row at or above i that has one, the row's own
\* included, and no label when no row so far has one; records already emitted
\* keep theirs.
C13_WeekLabelState ==
    [][ScanStep =>
          /\ \A n \in (Len(wide.records) + 1)..Len(wide'.records) :
                wide'.records[n].WeekLabel = NearestLabel(wide.df, wide.i)
          /\ \A n \in 1..Len(wide.records) : wide'.records[n] = wide.records[n]
          /\ wide'.current_week = NearestLabel(wide.df, wide.i)]_vars

\* a record emitted under a label set two rows earlier, in a row whose week
\* cells were of different lengths
C13_Witness ==
    /\ prog = "wide" /\ pc = "scan" /\ wide.i >= 4
    /\ WeekCells(Iloc(wide.df, wide.i - 1)) = {}
    /\ WeekCells(Iloc(wide.df, wide.i - 2)) = {}
    /\ Cardinality(WeekCells(Iloc(wide.df, wide.i - 3))) = 2
    /\ \E k \in 1..Len(wide.person_cols) :
          LET cell == Iloc(wide.df, wide.i - 1)[wide.person_cols[k].col] IN
          cell.k = "text" /\ MetricOf(Lower(cell.s)) # ""
    /\ wide.records # <<>>
    /\ wide.records[Len(wide.records)].WeekLabel = <<"T", "o", "t", "a", "l", " ", "f", "o", "r", " ", "w", "e", "e", "k", " ", "7">>


\* the (person, week label) groups of the emitted records
Groups == {<<wide.records[k].Person, wide.records[k].WeekLabel>> : k \in 1..Len(wide.records)}

\* the value of the first record of a group for a metric, undefined without one
FirstEmitted(person, label, metric) ==
    LET ks == {k \in 1..Len(wide.records) : /\ wide.records[k].Person = person
                                            /\ wide.records[k].WeekLabel = label
                                            /\ wide.records[k].Metric = metric}
    IN  IF ks = {} THEN NaN ELSE wide.records[CHOOSE k \in ks : \A j \in ks : k <= j].Value

WeeklyRows == {wide.frame.rows[n] : n \in 1..Len(wide.frame.rows)}

\* the parser got as far as the pivot, or stopped on what the pivot gave
Pivoted ==
    /\ prog = "wide" /\ wide.records # <<>>
    /\ pc \in {"parsed", "shown"} \/ (pc = "stopped" /\ wide.i >= Len(wide.df))

\* C14: the Weekly frame has exactly one row for each (person, week label)
\* group of the emitted records, the groups with an undefined or unparseable
\* label (undefined PeriodStart) and those with no defined value included, and
\* each metric of a row is the first value emitted for it.
C14_PivotRetention ==
    Pivoted =>
        /\ {<<r.Person, r.WeekLabel>> : r \in WeeklyRows} = Groups
        /\ Len(wide.frame.rows) = Cardinality(Groups)
        /\ \A r \in WeeklyRows : \A m \in Metrics :
              r.Metric[m] = FirstEmitted(r.Person, r.WeekLabel, m)
        /\ pc # "stopped" =>
              \A r \in WeeklyRows :
                 ~MatchAt(r.WeekLabel, 1).ok => r.PeriodStart = NoneDate

\* Utilization% decided row by row: the row's own ActualUtilization% first,
\* else the ratio of its hours
UtilizationPerRow(r) ==
    IF r.Metric["ActualUtilization%"].ok
    THEN Val(r.Metric["ActualUtilization%"].v * 100)
    ELSE HoursRatio(r)

\* C15: a row's Utilization% is its ActualUtilization% when it has one, else
\* ActualHours / PlannedHours * 100 when it has both hours (undefined on zero
\* planned hours), else undefined, whatever the other rows of the sheet hold.
C15_UtilizationPerRow ==
    (prog = "wide" /\ pc \in {"parsed", "shown"}) =>
        \A r \in WeeklyRows : r.Utilization = UtilizationPerRow(r)

\* C17: a group whose utilization or availability cannot be computed keeps its
\* row, and the figure is undefined there: AvailabilityHours is defined only
\* with both hours, as their difference; Utilization% only with an
\* ActualUtilization% or with both hours and non-zero planned hours; the
\* average of a person with no defined Utilization% is undefined.
C17_UndefinedNeverZero ==
    Pivoted =>
        /\ \A g \in Groups : \E r \in WeeklyRows : r.Person = g[1] /\ r.WeekLabel = g[2]
        /\ pc # "stopped" =>
              \A r \in WeeklyRows :
                 /\ r.AvailabilityHours.ok =>
                       /\ r.Metric["PlannedHours"].ok /\ r.Metric["ActualHours"].ok
                       /\ r.AvailabilityHours.v =
                             r.Metric["PlannedHours"].v - r.Metric["ActualHours"].v
                 /\ r.Utilization.ok =>
                       \/ r.Metric["ActualUtilization%"].ok
                       \/ /\ r.Metric["PlannedHours"].ok /\ r.Metric["ActualHours"].ok
                          /\ r.Metric["PlannedHours"].v # 0
        /\ pc = "shown" =>
              \A k \in 1..Len(wide.sum_person) :
                 wide.sum_person[k].AvgUtilizationPct.ok =>
                    \E r \in WeeklyRows :
                       r.Person = wide.sum_person[k].Person /\ r.Utilization.ok


-----------------------------------------------------------------------------
(* Properties of the merge, checked under SpecMerge.                       *)

\* the (person, period) pairs that have a canonical entry
BookedPairs == {<<df[k].person, df[k].period>> : k \in 1..Len(df)}

\* C18: the Utilization frame has exactly one row for each (person, period)
\* that has an entry and none for any other pair, whatever pairs the capacity
\* frame holds; BookedHours is the sum of the pair's hours; a pair without a
\* capacity entry has undefined CapacityHours.
C18_LeftJoin ==
    ToolAt({"merged", "breakdown", "done"}) =>
        /\ {<<out[i].person, out[i].period>> : i \in 1..Len(out)} = BookedPairs
        /\ Len(out) = Cardinality(BookedPairs)
        /\ \A i \in 1..Len(out) :
              /\ out[i].BookedHours =
                    SumOver({k \in 1..Len(df) : /\ df[k].person = out[i].person
                                                /\ df[k].period = out[i].period},
                            [k \in 1..Len(df) |-> df[k].hours])
              /\ (\A j \in 1..Len(cap.rows) :
                     <<cap.rows[j].person, cap.rows[j].period>>
                        # <<out[i].person, out[i].period>>)
                    => ~out[i].CapacityHours.ok
        /\ pc = "done" => Len(written.Utilization) = Len(out)

\* derived capacity for a combination nobody booked, beside two booked pairs
C18_Witness ==
    /\ ToolAt({"done"}) /\ cols.cap = None
    /\ Len(out) = 2 /\ Len(cap.rows) = 4
    /\ \E j \in 1..Len(cap.rows) :
          <<cap.rows[j].person, cap.rows[j].period>> \notin BookedPairs


-----------------------------------------------------------------------------
(* Properties of the bulk importers, checked under SpecImport.             *)

\* the entries of the table that the import added
SheetEntries(entries) == SelectSeq(entries, LAMBDA e : e # OldEntry)

\* C19: in both importers an import that raises leaves none of the sheet's
\* rows in the entries table, and an import that returns leaves one new
\* entry per sheet row
C19_AllOrNothing ==
    prog \in Importers =>
        /\ pc = "raised" => SheetEntries(db.entries) = <<>>
        /\ pc = "returned" => Len(SheetEntries(db.entries)) = Len(db.rows)

-----------------------------------------------------------------------------
(* Properties of the portal automation, checked under SpecPortal.          *)

\* how many times the portal has saved row r
TimesSaved(r) == Len(SelectSeq(portal.saved, LAMBDA x : x = r))

InSeq(x, s) == \E k \in 1..Len(s) : s[k] = x

\* C20: within one run the portal saves every row at most once over the
\* attempts of submit_entry, every row in success_rows was saved exactly
\* once, and no row in failed_rows was saved
C20_NoDuplicateSave ==
    prog = "portal" =>
        \A r \in 1..Len(portal.rows) :
            /\ TimesSaved(r) <= 1
            /\ InSeq(r, portal.success_rows) => TimesSaved(r) = 1
            /\ InSeq(r, portal.failed_rows) => TimesSaved(r) = 0

\* how many times row r stands in success_rows and in failed_rows together
TimesRecorded(r) ==
    Len(SelectSeq(portal.success_rows, LAMBDA x : x = r))
        + Len(SelectSeq(portal.failed_rows, LAMBDA x : x = r))

\* the row numbers of s rise from item to item
Rising(s) == \A k \in 1..(Len(s) - 1) : s[k] < s[k + 1]

\* the run is out of the loop over the rows
OutOfLoop == pc \in {"quit", "exited", "crashed"} /\ portal.exit # 1

\* C21: nothing is submitted unless the whole sheet passed validate_frame;
\* after login and the form every row is taken in sheet order and ends in
\* exactly one of success_rows and failed_rows, within 3 attempts, a failed
\* row not stopping the rows after it; and the browser is quit on every
\* path out of the loop
C21_RowOutcomePartition ==
    prog = "portal" =>
        /\ ValidateFrameRaises(portal.columns, portal.rows) =>
              /\ portal.driver = "none" /\ portal.saved = <<>>
              /\ portal.success_rows = <<>> /\ portal.failed_rows = <<>>
              /\ portal.i = 1 /\ portal.attempt = 1
        /\ portal.i \in 1..(Len(portal.rows) + 1)
        /\ portal.attempt \in 1..MaxAttempts
        /\ \A r \in 1..Len(portal.rows) :
              /\ TimesRecorded(r) = (IF r < portal.i THEN 1 ELSE 0)
              /\ TimesSaved(r) <= (IF r < portal.i THEN MaxAttempts
                                   ELSE IF r = portal.i THEN portal.attempt - 1 ELSE 0)
        /\ Rising(portal.success_rows) /\ Rising(portal.failed_rows)
        /\ pc \in {"quit", "exited"} /\ portal.exit # 1 => portal.i = Len(portal.rows) + 1
        /\ OutOfLoop => portal.driver = "quit"

\* a run that is over: row 1 failed on its third attempt, each attempt saved
\* without a toast, and row 2 was submitted after it
C21_Witness ==
    /\ prog = "portal" /\ pc = "exited" /\ portal.exit = 0
    /\ portal.failed_rows = <<1>> /\ portal.success_rows = <<2>>
    /\ TimesSaved(1) = MaxAttempts
    /\ portal.driver = "quit"
====
